---- MODULE Spec2Model ----
(***************************************************************************)
(* A model of src/step-by-step-qr-code-generation/instrumented-qrcodegen.ts *)
(* (class QrCode, the Module hierarchy, ReedSolomonGenerator).             *)
(*                                                                         *)
(* A grid is modules[x][y], as in the source (an array of columns).  A     *)
(* module is a record [kind, color]; kind is the name of the module's      *)
(* class without the "Module" suffix.  The isNew flag of FilledModule is   *)
(* not modelled (clearNewFlags only resets it and nothing reads it).       *)
(***************************************************************************)
EXTENDS Integers, Sequences, FiniteSets, TLC

VARIABLES
    version,        \* QrCode.version
    ecl,            \* QrCode.errorCorrectionLevel
    modules,        \* QrCode.modules
    unfilledColor,  \* the color property of the UnfilledModule object shared by row y
    scan,           \* the last array returned by makeZigZagScan
    mask,           \* the last QrCode returned by makeMask
    data,           \* the byte array of the last drawCodewords call
    op,             \* the last operation called
    err,            \* what the last operation threw ("none" when it returned)
    steps,          \* number of operations called since the initial state
    maskUses,       \* number of applyMask calls with the current mask
    sel,            \* the mask selection: the candidate scored next, the minimum so far
    query,          \* the last call of the static capacity queries and what it returned
    gf,             \* the last call of ReedSolomonGenerator.multiply and what it returned
    rs              \* a ReedSolomonGenerator and its last getRemainder call

gridVars ==
    <<version, ecl, modules, unfilledColor, scan, mask, data, op, err, steps, maskUses, sel>>
pureVars == <<query, gf, rs>>
vars == <<gridVars, pureVars>>

(***************************************************************************)
(* Bounds of the model.                                                    *)
(***************************************************************************)
MaxVersion == 2
MaxSteps == 3
MaxFormatMask == 0
\* how many versions below MIN_VERSION and above MAX_VERSION are tried
VersionsBelow == 5
VersionsAbove == 2
\* how many operands below 0 and above 255 multiply is tried with
BytesBelow == 2
BytesAbove == 2
\* a ReedSolomonGenerator is tried with the degrees from DegreesBelow below 1 to
\* MaxDegree, and from 255 to DegreesAbove above 255
DegreesBelow == 2
MaxDegree == 30
DegreesAbove == 2
\* the longest data sequence getRemainder is tried with
MaxDataLen == 3
\* the largest version mask selection is run on
MaxSelectVersion == 1
\* the largest version a symbol is built end to end for
MaxE2EVersion == 2

(***************************************************************************)
(* Integer helpers: the JavaScript operators on the values the code feeds  *)
(* them (int32 where said, otherwise non-negative and far below 2^31).     *)
(***************************************************************************)
\* 2^n for 0 <= n <= 30
Pow2(n) ==
    << 1, 2, 4, 8, 16, 32, 64, 128, 256, 512, 1024, 2048, 4096, 8192, 16384, 32768,
       65536, 131072, 262144, 524288, 1048576, 2097152, 4194304, 8388608, 16777216,
       33554432, 67108864, 134217728, 268435456, 536870912, 1073741824 >>[n + 1]

\* x >>> n for an int32 x and 1 <= n <= 31 (a negative x is read as x + 2^32)
Shr(x, n) ==
    IF x >= 0 THEN x \div Pow2(n)
    ELSE (((x + 2147483647) + 1) \div Pow2(n)) + Pow2(31 - n)

\* an int32 as its two 16-bit halves (ToUint32), and back (ToInt32)
Word(x) == [hi |-> (x \div 65536) % 65536, lo |-> x % 65536]
FromWord(w) == IF w.hi < 32768 THEN (w.hi * 65536) + w.lo ELSE ((w.hi - 65536) * 65536) + w.lo

\* x << n for an int32 x and 0 <= n <= 15, the bits shifted past bit 31 lost
Shl(x, n) ==
    IF x >= 0 /\ x < Pow2(30 - n) THEN x * Pow2(n)
    ELSE LET w == Word(x)
         IN FromWord([hi |-> ((w.hi * Pow2(n)) + ((w.lo * Pow2(n)) \div 65536)) % 65536,
                      lo |-> (w.lo * Pow2(n)) % 65536])

\* ToInt32(a * c) for 0 <= a < 2^24 and 0 <= c < 2^15: the product of two numbers,
\* exact in a double, as the operator ^ reads it
ToInt32Product(a, c) ==
    IF a < 65536 THEN a * c
    ELSE LET w == Word(a)
         IN FromWord([hi |-> ((w.hi * c) + ((w.lo * c) \div 65536)) % 65536,
                      lo |-> (w.lo * c) % 65536])

RECURSIVE XorNat(_, _)
XorNat(a, b) ==
    IF a = 0 THEN b
    ELSE IF b = 0 THEN a
    ELSE (((a % 2) + (b % 2)) % 2) + 2 * XorNat(a \div 2, b \div 2)

RECURSIVE OrNat(_, _)
OrNat(a, b) ==
    IF a = 0 THEN b
    ELSE IF b = 0 THEN a
    ELSE (IF (a % 2) = 1 \/ (b % 2) = 1 THEN 1 ELSE 0) + 2 * OrNat(a \div 2, b \div 2)

\* a ^ b and a | b on int32 operands
BitXor(a, b) ==
    IF a >= 0 /\ b >= 0 THEN XorNat(a, b)
    ELSE LET v == Word(a)
             w == Word(b)
         IN FromWord([hi |-> XorNat(v.hi, w.hi), lo |-> XorNat(v.lo, w.lo)])

BitOr(a, b) ==
    IF a >= 0 /\ b >= 0 THEN OrNat(a, b)
    ELSE LET v == Word(a)
             w == Word(b)
         IN FromWord([hi |-> OrNat(v.hi, w.hi), lo |-> OrNat(v.lo, w.lo)])

\* getBit, for x >= 0
getBit(x, i) == ((x \div Pow2(i)) % 2) # 0

\* f itself, evaluated once at every argument (TLC otherwise evaluates the body of
\* [x \in S |-> e] again at every application)
Stored(f) == f @@ <<>>
StoredSeq(f) == f \o <<>>
StoredGrid(g) == Stored([x \in DOMAIN g |-> Stored(g[x])])

Abs(n) == IF n < 0 THEN -n ELSE n
Max(a, b) == IF a >= b THEN a ELSE b

(***************************************************************************)
(* Modules (pixels).                                                       *)
(***************************************************************************)
Mod(k, c) == [kind |-> k, color |-> c]

UnfilledModule == Mod("Unfilled", FALSE)
FilledModule(c) == Mod("Filled", c)
FinderModule(c) == Mod("Finder", c)
SeparatorModule == Mod("Separator", FALSE)
AlignmentModule(c) == Mod("Alignment", c)
FormatInfoModule(c) == Mod("FormatInfo", c)
VersionInfoModule(c) == Mod("VersionInfo", c)
TimingModule(c) == Mod("Timing", c)
BlackModule == Mod("Black", TRUE)
CodewordModule(c) == Mod("Codeword", c)
RemainderModule == Mod("Remainder", FALSE)

FunctionKinds == {"Finder", "Separator", "Alignment", "FormatInfo", "VersionInfo", "Timing", "Black"}

\* m instanceof FunctionModule
IsFunctionModule(m) == m.kind \in FunctionKinds
\* m instanceof FilledModule
IsFilledModule(m) == m.kind # "Unfilled"
\* m instanceof UnfilledModule
IsUnfilledModule(m) == m.kind = "Unfilled"

(***************************************************************************)
(* Error-correction levels.                                                *)
(***************************************************************************)
LOW == [ordinal |-> 0, formatBits |-> 1]
MEDIUM == [ordinal |-> 1, formatBits |-> 0]
QUARTILE == [ordinal |-> 2, formatBits |-> 3]
HIGH == [ordinal |-> 3, formatBits |-> 2]
ErrorCorrectionLevel == {LOW, MEDIUM, QUARTILE, HIGH}

MIN_VERSION == 1
MAX_VERSION == 40

(***************************************************************************)
(* QrCode: construction and the static queries.                            *)
(***************************************************************************)
SizeOf(ver) == ver * 4 + 17

\* the constructor: size columns, each a copy of one column of UnfilledModules.
\* There is no check of the version.
NewModules(ver) ==
    [x \in 0 .. SizeOf(ver) - 1 |-> [y \in 0 .. SizeOf(ver) - 1 |-> UnfilledModule]]

NewUnfilledColor(ver) == [y \in 0 .. SizeOf(ver) - 1 |-> "undefined"]

\* new QrCode(ver, level): the object the constructor leaves, and what it threw
QrCode(ver, level) ==
    [err |-> "none", version |-> ver, errorCorrectionLevel |-> level,
     size |-> SizeOf(ver), modules |-> NewModules(ver)]

\* getNumRawDataModules with the 36 subtracted from version 6 on
getNumRawDataModules_From6(ver) ==
    IF ver < MIN_VERSION \/ ver > MAX_VERSION
    THEN [err |-> "Version number out of range", val |-> 0]
    ELSE LET r0 == (16 * ver + 128) * ver + 64
             numAlign == (ver \div 7) + 2
             r1 == IF ver >= 2 THEN r0 - ((25 * numAlign - 10) * numAlign - 55) ELSE r0
             r2 == IF ver >= 2 /\ ver >= 6 THEN r1 - 36 ELSE r1
         IN [err |-> "none", val |-> r2]

\* getNumRawDataModules: a record [err, val]
getNumRawDataModules(ver) ==
    IF ver < MIN_VERSION \/ ver > MAX_VERSION
    THEN [err |-> "Version number out of range", val |-> 0]
    ELSE LET r0 == (16 * ver + 128) * ver + 64
             numAlign == (ver \div 7) + 2
             r1 == IF ver >= 2 THEN r0 - ((25 * numAlign - 10) * numAlign - 55) ELSE r0
             r2 == IF ver >= 2 /\ ver >= 7 THEN r1 - 36 ELSE r1
         IN [err |-> "none", val |-> r2]

ECC_CODEWORDS_PER_BLOCK ==
    << <<-1,  7, 10, 15, 20, 26, 18, 20, 24, 30, 18, 20, 24, 26, 30, 22, 24, 28, 30, 28, 28, 28, 28, 30, 30, 26, 28, 30, 30, 30, 30, 30, 30, 30, 30, 30, 30, 30, 30, 30, 30>>,
       <<-1, 10, 16, 26, 18, 24, 16, 18, 22, 22, 26, 30, 22, 22, 24, 24, 28, 28, 26, 26, 26, 26, 28, 28, 28, 28, 28, 28, 28, 28, 28, 28, 28, 28, 28, 28, 28, 28, 28, 28, 28>>,
       <<-1, 13, 22, 18, 26, 18, 24, 18, 22, 20, 24, 28, 26, 24, 20, 30, 24, 28, 28, 26, 30, 28, 30, 30, 30, 30, 28, 30, 30, 30, 30, 30, 30, 30, 30, 30, 30, 30, 30, 30, 30>>,
       <<-1, 17, 28, 22, 16, 22, 28, 26, 26, 24, 28, 24, 28, 22, 24, 24, 30, 28, 28, 26, 28, 30, 24, 30, 30, 30, 30, 30, 30, 30, 30, 30, 30, 30, 30, 30, 30, 30, 30, 30, 30>> >>

NUM_ERROR_CORRECTION_BLOCKS ==
    << <<-1, 1, 1, 1, 1, 1, 2, 2, 2, 2, 4,  4,  4,  4,  4,  6,  6,  6,  6,  7,  8,  8,  9,  9, 10, 12, 12, 12, 13, 14, 15, 16, 17, 18, 19, 19, 20, 21, 22, 24, 25>>,
       <<-1, 1, 1, 1, 2, 2, 4, 4, 4, 5, 5,  5,  8,  9,  9, 10, 10, 11, 13, 14, 16, 17, 17, 18, 20, 21, 23, 25, 26, 28, 29, 31, 33, 35, 37, 38, 40, 43, 45, 47, 49>>,
       <<-1, 1, 1, 2, 2, 4, 4, 6, 6, 8, 8,  8, 10, 12, 16, 12, 17, 16, 18, 21, 20, 23, 23, 25, 27, 29, 34, 34, 35, 38, 40, 43, 45, 48, 51, 53, 56, 59, 62, 65, 68>>,
       <<-1, 1, 1, 2, 4, 4, 4, 5, 6, 8, 8, 11, 11, 16, 16, 18, 16, 19, 21, 25, 25, 25, 34, 30, 32, 35, 37, 40, 42, 45, 48, 51, 54, 57, 60, 63, 66, 70, 74, 77, 81>> >>

\* getNumDataCodewords: a record [err, val]; getNumRawDataModules is evaluated first
\* and throws before a table is read
getNumDataCodewords(ver, level) ==
    LET raw == getNumRawDataModules(ver)
    IN IF raw.err # "none" THEN raw
       ELSE [err |-> "none",
             val |-> (raw.val \div 8)
                     - ECC_CODEWORDS_PER_BLOCK[level.ordinal + 1][ver + 1]
                       * NUM_ERROR_CORRECTION_BLOCKS[level.ordinal + 1][ver + 1]]

(***************************************************************************)
(* Writing modules.  Every draw* method is a loop of assignments           *)
(* this.modules[x][y] = new ...; the model builds the assignments in the   *)
(* order of the loop, and a cell ends as the last assignment to it leaves  *)
(* it.  (No draw* method writes outside the grid for the versions          *)
(* modelled; an assignment outside the grid is not modelled.)              *)
(***************************************************************************)
Write(x, y, m) == [x |-> x, y |-> y, m |-> m]

ApplyWrites(g, ws) ==
    LET all == StoredSeq(ws)
    IN [x \in DOMAIN g |->
           LET col == SelectSeq(all, LAMBDA w : w.x = x)
           IN IF col = <<>> THEN g[x]
              ELSE [y \in DOMAIN g[x] |->
                       LET hits == {k \in 1 .. Len(col) : col[k].y = y}
                       IN IF hits = {} THEN g[x][y]
                          ELSE col[CHOOSE k \in hits : \A j \in hits : j <= k].m]]

RECURSIVE Flatten(_)
Flatten(ss) == IF ss = <<>> THEN <<>> ELSE Head(ss) \o Flatten(Tail(ss))

(***************************************************************************)
(* The structural pattern drawers.                                         *)
(***************************************************************************)
drawTimingPatterns(g, size) ==
    LET ws == [k \in 1 .. 2 * size |->
                  LET i == (k - 1) \div 2
                  IN IF ((k - 1) % 2) = 0
                     THEN Write(6, i, TimingModule((i % 2) = 0))
                     ELSE Write(i, 6, TimingModule((i % 2) = 0))]
    IN ApplyWrites(g, ws)

FinderCenters(size) == << <<3, 3>>, <<size - 4, 3>>, <<3, size - 4>> >>

drawFinderPatterns(g, size) ==
    LET centers == FinderCenters(size)
        all == [k \in 1 .. 3 * 81 |->
                   LET c == centers[((k - 1) \div 81) + 1]
                       dy == (((k - 1) % 81) \div 9) - 4
                       dx == ((k - 1) % 9) - 4
                       dist == Max(Abs(dx), Abs(dy))
                   IN Write(c[1] + dx, c[2] + dy,
                            IF dist <= 3 THEN FinderModule(dist # 2 /\ dist # 4)
                            ELSE SeparatorModule)]
        ws == SelectSeq(all, LAMBDA w : 0 <= w.x /\ w.x < size /\ 0 <= w.y /\ w.y < size)
    IN ApplyWrites(g, ws)

\* Math.ceil(a / b) for a >= 0, b > 0
CeilDiv(a, b) == (a + b - 1) \div b

RECURSIVE AlignInsert(_, _, _, _)
AlignInsert(list, pos, step, numAlign) ==
    IF Len(list) < numAlign
    THEN AlignInsert(<<list[1], pos>> \o Tail(list), pos - step, step, numAlign)
    ELSE list

\* the array alignPatPos of drawAlignmentPatterns
AlignPatPos(ver) ==
    LET size == SizeOf(ver)
        numAlign == (ver \div 7) + 2
        step == IF ver = 32 THEN 26 ELSE CeilDiv(size - 13, numAlign * 2 - 2) * 2
    IN AlignInsert(<<6>>, size - 7, step, numAlign)

\* drawAlignmentPatterns drawing a block at every pair of positions
drawAlignmentPatterns_AllPairs(g, ver) ==
    IF ver = 1 THEN g
    ELSE LET pos == AlignPatPos(ver)
             numAlign == (ver \div 7) + 2
             ws == [k \in 1 .. numAlign * numAlign * 25 |->
                        LET i == (k - 1) \div (numAlign * 25)
                            j == ((k - 1) \div 25) % numAlign
                            dy == (((k - 1) % 25) \div 5) - 2
                            dx == ((k - 1) % 5) - 2
                        IN Write(pos[i + 1] + dx, pos[j + 1] + dy,
                                 AlignmentModule(Max(Abs(dx), Abs(dy)) # 1))]
         IN ApplyWrites(g, ws)

drawAlignmentPatterns(g, ver) ==
    IF ver = 1 THEN g
    ELSE LET pos == AlignPatPos(ver)
             numAlign == (ver \div 7) + 2
             all == [k \in 1 .. numAlign * numAlign * 25 |->
                        LET i == (k - 1) \div (numAlign * 25)
                            j == ((k - 1) \div 25) % numAlign
                            dy == (((k - 1) % 25) \div 5) - 2
                            dx == ((k - 1) % 5) - 2
                        IN [i |-> i, j |-> j,
                            w |-> Write(pos[i + 1] + dx, pos[j + 1] + dy,
                                        AlignmentModule(Max(Abs(dx), Abs(dy)) # 1))]]
             kept == SelectSeq(all, LAMBDA e :
                        ~ (  (e.i = 0 /\ e.j = 0)
                          \/ (e.i = 0 /\ e.j = numAlign - 1)
                          \/ (e.i = numAlign - 1 /\ e.j = 0)))
             ws == [k \in 1 .. Len(kept) |-> kept[k].w]
         IN ApplyWrites(g, ws)

\* one turn of the loop of drawFormatBits with the generator 0x137 in place of 0x537
FormatRemTurn_Low9(rem) == BitXor(Shl(rem, 1), ToInt32Product(Shr(rem, 9), 311))

\* one turn of the loop of drawFormatBits: rem = (rem << 1) ^ ((rem >>> 9) * 0x537)
FormatRemTurn(rem) == BitXor(Shl(rem, 1), ToInt32Product(Shr(rem, 9), 1335))

RECURSIVE FormatRem(_, _)
FormatRem(rem, i) ==
    IF i = 0 THEN rem
    ELSE FormatRem(FormatRemTurn(rem), i - 1)

\* the bits of drawFormatBits with the mask index left out of data
FormatBits_NoMask(level, msk) ==
    IF msk # -1
    THEN LET d == Shl(level.formatBits, 3)
             rem == FormatRem(d, 10)
         IN BitXor(BitOr(Shl(d, 10), rem), 21522)
    ELSE 0

\* the local variable bits of drawFormatBits (0x537 = 1335, 0x5412 = 21522)
FormatBits(level, msk) ==
    IF msk # -1
    THEN LET d == BitOr(Shl(level.formatBits, 3), msk)
             rem == FormatRem(d, 10)
         IN BitXor(BitOr(Shl(d, 10), rem), 21522)
    ELSE 0

drawFormatBits(g, size, level, msk) ==
    LET bits == FormatBits(level, msk)
        ws ==    [i \in 1 .. 6 |-> Write(8, i - 1, FormatInfoModule(getBit(bits, i - 1)))]
              \o << Write(8, 7, FormatInfoModule(getBit(bits, 6))),
                    Write(8, 8, FormatInfoModule(getBit(bits, 7))),
                    Write(7, 8, FormatInfoModule(getBit(bits, 8))) >>
              \o [k \in 1 .. 6 |-> Write(14 - (k + 8), 8, FormatInfoModule(getBit(bits, k + 8)))]
              \o [k \in 1 .. 8 |-> Write(size - 1 - (k - 1), 8, FormatInfoModule(getBit(bits, k - 1)))]
              \o [k \in 1 .. 7 |-> Write(8, size - 15 + (k + 7), FormatInfoModule(getBit(bits, k + 7)))]
              \o << Write(8, size - 8, BlackModule) >>
    IN IF Shr(bits, 15) # 0
       THEN [err |-> "Assertion error", g |-> g]
       ELSE [err |-> "none", g |-> ApplyWrites(g, ws)]

\* one turn of the loop of drawVersionInformation:
\* rem = (rem << 1) ^ ((rem >>> 11) * 0x1F25)
VersionRemTurn(rem) == BitXor(Shl(rem, 1), Shr(rem, 11) * 7973)

RECURSIVE VersionRem(_, _)
VersionRem(rem, i) ==
    IF i = 0 THEN rem
    ELSE VersionRem(VersionRemTurn(rem), i - 1)

\* the constant bits of drawVersionInformation (0x1F25 = 7973)
VersionBits(ver) == BitOr(Shl(ver, 12), VersionRem(ver, 12))

\* drawVersionInformation drawing the block at the top right only
drawVersionInformation_OneBlock(g, ver, size) ==
    IF ver < 7 THEN [err |-> "none", g |-> g]
    ELSE LET bits == VersionBits(ver)
             ws == [k \in 1 .. 18 |->
                       LET i == k - 1
                       IN Write(size - 11 + (i % 3), i \div 3, VersionInfoModule(getBit(bits, i)))]
         IN IF Shr(bits, 18) # 0
            THEN [err |-> "Assertion error", g |-> g]
            ELSE [err |-> "none", g |-> ApplyWrites(g, ws)]

drawVersionInformation(g, ver, size) ==
    IF ver < 7 THEN [err |-> "none", g |-> g]
    ELSE LET bits == VersionBits(ver)
             ws == [k \in 1 .. 36 |->
                       LET i == (k - 1) \div 2
                           a == size - 11 + (i % 3)
                           b == i \div 3
                       IN IF ((k - 1) % 2) = 0
                          THEN Write(a, b, VersionInfoModule(getBit(bits, i)))
                          ELSE Write(b, a, VersionInfoModule(getBit(bits, i)))]
         IN IF Shr(bits, 18) # 0
            THEN [err |-> "Assertion error", g |-> g]
            ELSE [err |-> "none", g |-> ApplyWrites(g, ws)]

(***************************************************************************)
(* Scan order and data placement.                                          *)
(***************************************************************************)
\* ScanRights without the step from 6 to 5
RECURSIVE ScanRights_NoSkip(_)
ScanRights_NoSkip(right) ==
    IF right >= 1
    THEN <<right>> \o ScanRights_NoSkip(right - 2)
    ELSE <<>>

\* the values the loop variable right takes inside the body of makeZigZagScan
RECURSIVE ScanRights(_)
ScanRights(right) ==
    IF right >= 1
    THEN LET r == IF right = 6 THEN 5 ELSE right
         IN <<r>> \o ScanRights(r - 2)
    ELSE <<>>

\* ((right + 1) & 2) == 0
Upward(right) == (((right + 1) \div 2) % 2) = 0

\* the cells one value of right visits, in order
ScanStrip(size, right) ==
    [k \in 1 .. 2 * size |->
        LET vert == (k - 1) \div 2
            j == (k - 1) % 2
        IN << right - j, IF Upward(right) THEN size - 1 - vert ELSE vert >>]

\* makeZigZagScan without the test for UnfilledModule
makeZigZagScan_AllCells(g, size) ==
    LET rights == ScanRights(size - 1)
    IN Flatten([n \in 1 .. Len(rights) |-> ScanStrip(size, rights[n])])

makeZigZagScan(g, size) ==
    LET rights == ScanRights(size - 1)
    IN Flatten([n \in 1 .. Len(rights) |->
                   SelectSeq(ScanStrip(size, rights[n]),
                             LAMBDA xy : IsUnfilledModule(g[xy[1]][xy[2]]))])

\* drawCodewords taking the bits of a byte least significant first
drawCodewords_LsbFirst(g, ver, dat, zigZagScan) ==
    LET raw == getNumRawDataModules(ver)
    IN IF raw.err # "none" THEN [err |-> raw.err, g |-> g]
       ELSE IF Len(dat) # raw.val \div 8 THEN [err |-> "Invalid argument", g |-> g]
       ELSE LET ws == [k \in 1 .. Len(zigZagScan) |->
                          LET i == k - 1
                              xy == zigZagScan[k]
                          IN IF i < Len(dat) * 8
                             THEN Write(xy[1], xy[2],
                                        CodewordModule(getBit(dat[(i \div 8) + 1], i % 8)))
                             ELSE Write(xy[1], xy[2], RemainderModule)]
            IN [err |-> "none", g |-> ApplyWrites(g, ws)]

\* drawCodewords rejecting only a byte array that is too short
drawCodewords_AcceptsLonger(g, ver, dat, zigZagScan) ==
    LET raw == getNumRawDataModules(ver)
    IN IF raw.err # "none" THEN [err |-> raw.err, g |-> g]
       ELSE IF Len(dat) < raw.val \div 8 THEN [err |-> "Invalid argument", g |-> g]
       ELSE LET ws == [k \in 1 .. Len(zigZagScan) |->
                          LET i == k - 1
                              xy == zigZagScan[k]
                          IN IF i < Len(dat) * 8
                             THEN Write(xy[1], xy[2],
                                        CodewordModule(getBit(dat[(i \div 8) + 1], 7 - (i % 8))))
                             ELSE Write(xy[1], xy[2], RemainderModule)]
            IN [err |-> "none", g |-> ApplyWrites(g, ws)]

\* drawCodewords accepting an array shorter than the capacity
drawCodewords_AcceptsShorter(g, ver, dat, zigZagScan) ==
    LET raw == getNumRawDataModules(ver)
    IN IF raw.err # "none" THEN [err |-> raw.err, g |-> g]
       ELSE IF Len(dat) > raw.val \div 8 THEN [err |-> "Invalid argument", g |-> g]
       ELSE LET ws == [k \in 1 .. Len(zigZagScan) |->
                          LET i == k - 1
                              xy == zigZagScan[k]
                          IN IF i < Len(dat) * 8
                             THEN Write(xy[1], xy[2],
                                        CodewordModule(getBit(dat[(i \div 8) + 1], 7 - (i % 8))))
                             ELSE Write(xy[1], xy[2], RemainderModule)]
            IN [err |-> "none", g |-> ApplyWrites(g, ws)]

\* drawCodewords: a record [err, g]
drawCodewords(g, ver, dat, zigZagScan) ==
    LET raw == getNumRawDataModules(ver)
    IN IF raw.err # "none" THEN [err |-> raw.err, g |-> g]
       ELSE IF Len(dat) # raw.val \div 8 THEN [err |-> "Invalid argument", g |-> g]
       ELSE LET ws == [k \in 1 .. Len(zigZagScan) |->
                          LET i == k - 1
                              xy == zigZagScan[k]
                          IN IF i < Len(dat) * 8
                             THEN Write(xy[1], xy[2],
                                        CodewordModule(getBit(dat[(i \div 8) + 1], 7 - (i % 8))))
                             ELSE Write(xy[1], xy[2], RemainderModule)]
            IN [err |-> "none", g |-> ApplyWrites(g, ws)]

(***************************************************************************)
(* Masks.                                                                  *)
(***************************************************************************)
\* the variable invert of makeMask, for msk in 0..7
MaskInvert(msk, x, y) ==
    CASE msk = 0 -> ((x + y) % 2) = 0
      [] msk = 1 -> (y % 2) = 0
      [] msk = 2 -> (x % 3) = 0
      [] msk = 3 -> ((x + y) % 3) = 0
      [] msk = 4 -> (((x \div 3) + (y \div 2)) % 2) = 0
      [] msk = 5 -> (((x * y) % 2) + ((x * y) % 3)) = 0
      [] msk = 6 -> ((((x * y) % 2) + ((x * y) % 3)) % 2) = 0
      [] msk = 7 -> ((((x + y) % 2) + ((x * y) % 3)) % 2) = 0

\* makeMask without the test for FunctionModule
makeMask_AllCells(g, ver, msk) ==
    LET size == SizeOf(ver)
    IN IF size > 0 /\ msk \notin 0 .. 7
       THEN [err |-> "Assertion error", g |-> <<>>]
       ELSE [err |-> "none",
             g |-> [x \in 0 .. size - 1 |-> [y \in 0 .. size - 1 |->
                       FilledModule(MaskInvert(msk, x, y))]]]

\* makeMask: a record [err, g]; the switch throws at the first cell
makeMask(g, ver, msk) ==
    LET size == SizeOf(ver)
    IN IF size > 0 /\ msk \notin 0 .. 7
       THEN [err |-> "Assertion error", g |-> <<>>]
       ELSE [err |-> "none",
             g |-> [x \in 0 .. size - 1 |-> [y \in 0 .. size - 1 |->
                       IF ~ IsFunctionModule(g[x][y])
                       THEN FilledModule(MaskInvert(msk, x, y))
                       ELSE UnfilledModule]]]

\* b.color != a.color where b.color may be undefined (an UnfilledModule has no color
\* until applyMask gives it one)
JsNotEqual(bc, ac) ==
    IF bc = "undefined" THEN "true"
    ELSE IF (bc = "true") # ac THEN "true" ELSE "false"

\* The color of the UnfilledModule object of row y after applyMask: the loop runs
\* b.color = b.color != a.color once for every x whose cell is still that object and
\* whose mask cell is filled.  The first such assignment turns undefined into true,
\* every other one flips the color when the mask cell is dark.
UnfilledAfter(g, mg, size, y, c) ==
    LET touched == {x \in 0 .. size - 1 : IsFilledModule(mg[x][y]) /\ IsUnfilledModule(g[x][y])}
        first == CHOOSE x \in touched : \A x2 \in touched : x <= x2
        flips == IF c = "undefined"
                 THEN {x \in touched : x # first /\ mg[x][y].color}
                 ELSE {x \in touched : mg[x][y].color}
        start == IF c = "undefined" THEN JsNotEqual(c, mg[first][y].color) ELSE c
    IN IF touched = {} THEN c
       ELSE IF (Cardinality(flips) % 2) = 0 THEN start
       ELSE JsNotEqual(start, TRUE)

\* applyMask darkening instead of inverting (b.color = b.color || a.color)
applyMask_Or(g, size, mg) ==
    [x \in 0 .. size - 1 |-> [y \in 0 .. size - 1 |->
        IF IsFilledModule(mg[x][y]) /\ IsFilledModule(g[x][y])
        THEN [g[x][y] EXCEPT !.color = (@ \/ mg[x][y].color)]
        ELSE g[x][y]]]

\* applyMask: the modules afterwards
applyMask(g, size, mg) ==
    [x \in 0 .. size - 1 |-> [y \in 0 .. size - 1 |->
        IF IsFilledModule(mg[x][y]) /\ IsFilledModule(g[x][y])
        THEN [g[x][y] EXCEPT !.color = (@ # mg[x][y].color)]
        ELSE g[x][y]]]

applyMaskUnfilled(g, uc, size, mg) ==
    [y \in 0 .. size - 1 |-> UnfilledAfter(g, mg, size, y, uc[y])]

(***************************************************************************)
(* computePenalties.                                                       *)
(***************************************************************************)
PENALTY_N1 == 3
PENALTY_N2 == 3
PENALTY_N3 == 40
PENALTY_N4 == 10

LinearRun(startX, startY, runLength) ==
    [startX |-> startX, startY |-> startY, runLength |-> runLength]

\* history.pop(); history.unshift(run): the history after the call
addRunToHistory(run, history) == <<run>> \o SubSeq(history, 1, Len(history) - 1)

\* runHistory[k] of the source is runHistory[k + 1] here
hasFinderLikePattern(runHistory) ==
    LET n == runHistory[2]
    IN /\ n > 0
       /\ runHistory[3] = n
       /\ runHistory[5] = n
       /\ runHistory[6] = n
       /\ runHistory[4] = n * 3
       /\ Max(runHistory[1], runHistory[7]) >= n * 4

RECURSIVE sumArray(_)
sumArray(arr) == IF arr = <<>> THEN 0 ELSE Head(arr) + sumArray(Tail(arr))

\* LineTurn without the run of length 0 added after a dark run at the end of the line
LineTurn_NoFlush(st, line, size, pos) ==
    IF pos < size /\ line[pos] = st.color
    THEN [st EXCEPT !.runLen = @ + 1]
    ELSE LET long == st.runLen >= 5
             history == addRunToHistory(st.runLen, st.runHistory)
             finder == ~ st.color /\ hasFinderLikePattern(history)
             n == sumArray(history)
         IN [runHistory |-> history,
             color |-> IF pos >= size THEN st.color ELSE line[pos],
             runLen |-> IF pos >= size THEN st.runLen ELSE 1,
             n1 |-> st.n1 + (IF long THEN PENALTY_N1 + st.runLen - 5 ELSE 0),
             n3 |-> st.n3 + (IF finder THEN PENALTY_N3 ELSE 0),
             runs |-> IF long THEN Append(st.runs, <<pos - st.runLen, st.runLen>>)
                      ELSE st.runs,
             finders |-> IF finder THEN Append(st.finders, <<pos - n, n>>) ELSE st.finders]

\* LineTurn counting a run from length 6 on
LineTurn_Over5(st, line, size, pos) ==
    IF pos < size /\ line[pos] = st.color
    THEN [st EXCEPT !.runLen = @ + 1]
    ELSE LET long == st.runLen > 5
             pushed == addRunToHistory(st.runLen, st.runHistory)
             flush == pos >= size /\ st.color
             history == IF flush THEN addRunToHistory(0, pushed) ELSE pushed
             color == IF flush THEN FALSE ELSE st.color
             finder == ~ color /\ hasFinderLikePattern(history)
             n == sumArray(history)
         IN [runHistory |-> history,
             color |-> IF pos >= size THEN color ELSE line[pos],
             runLen |-> IF pos >= size THEN st.runLen ELSE 1,
             n1 |-> st.n1 + (IF long THEN PENALTY_N1 + st.runLen - 5 ELSE 0),
             n3 |-> st.n3 + (IF finder THEN PENALTY_N3 ELSE 0),
             runs |-> IF long THEN Append(st.runs, <<pos - st.runLen, st.runLen>>)
                      ELSE st.runs,
             finders |-> IF finder THEN Append(st.finders, <<pos - n, n>>) ELSE st.finders]

\* One turn of the loop "for (let x = 0; ; x++)" over one row or column: line[pos] is
\* the color at position pos, and st holds runHistory, color, runLen, the points the
\* line has added to penalties[0] (n1) and penalties[2] (n3), and the line's runs and
\* finder-like patterns as <<start, length>>.
LineTurn(st, line, size, pos) ==
    IF pos < size /\ line[pos] = st.color
    THEN [st EXCEPT !.runLen = @ + 1]
    ELSE LET long == st.runLen >= 5
             pushed == addRunToHistory(st.runLen, st.runHistory)
             flush == pos >= size /\ st.color
             history == IF flush THEN addRunToHistory(0, pushed) ELSE pushed
             color == IF flush THEN FALSE ELSE st.color
             finder == ~ color /\ hasFinderLikePattern(history)
             n == sumArray(history)
         IN [runHistory |-> history,
             color |-> IF pos >= size THEN color ELSE line[pos],
             runLen |-> IF pos >= size THEN st.runLen ELSE 1,
             n1 |-> st.n1 + (IF long THEN PENALTY_N1 + st.runLen - 5 ELSE 0),
             n3 |-> st.n3 + (IF finder THEN PENALTY_N3 ELSE 0),
             runs |-> IF long THEN Append(st.runs, <<pos - st.runLen, st.runLen>>)
                      ELSE st.runs,
             finders |-> IF finder THEN Append(st.finders, <<pos - n, n>>) ELSE st.finders]

\* the turns pos .. size of the loop; the turn at size ends in the break
RECURSIVE LineTurns(_, _, _, _)
LineTurns(st, line, size, pos) ==
    IF pos > size THEN st
    ELSE LineTurns(LineTurn(st, line, size, pos), line, size, pos + 1)

\* the whole loop over one row or column
ScanLine(line, size) ==
    LineTurns([runHistory |-> <<0, 0, 0, 0, 0, 0, 0>>, color |-> FALSE, runLen |-> 0,
               n1 |-> 0, n3 |-> 0, runs |-> <<>>, finders |-> <<>>],
              line, size, 0)

RECURSIVE SumOver(_, _)
SumOver(q, k) == IF k = 0 THEN 0 ELSE q[k] + SumOver(q, k - 1)

\* the smallest k with |black * 20 - total * 10| <= (k + 1) * total
RECURSIVE BalanceSteps(_, _, _)
BalanceSteps(black, total, k) ==
    IF Abs(black * 20 - total * 10) > (k + 1) * total
    THEN BalanceSteps(black, total, k + 1)
    ELSE k

\* computePenalties: the PenaltyInfo returned
computePenalties(g, size) ==
    LET colors == StoredGrid([x \in 0 .. size - 1 |-> [y \in 0 .. size - 1 |->
                      IsFilledModule(g[x][y]) /\ g[x][y].color]])
        horz == StoredSeq([k \in 1 .. size |->
                      ScanLine(Stored([x \in 0 .. size - 1 |-> colors[x][k - 1]]), size)])
        vert == StoredSeq([k \in 1 .. size |-> ScanLine(colors[k - 1], size)])
        boxes == SelectSeq(
                     Flatten([k \in 1 .. size - 1 |-> [j \in 1 .. size - 1 |-> <<k - 1, j - 1>>]]),
                     LAMBDA xy : LET c == colors[xy[1]][xy[2]]
                                 IN /\ c = colors[xy[1] + 1][xy[2]]
                                    /\ c = colors[xy[1]][xy[2] + 1]
                                    /\ c = colors[xy[1] + 1][xy[2] + 1])
        black == SumOver(StoredSeq([k \in 1 .. size |->
                             Cardinality({y \in 0 .. size - 1 : colors[k - 1][y]})]), size)
        total == size * size
    IN [horizontalRuns |->
            Flatten([k \in 1 .. size |-> [j \in 1 .. Len(horz[k].runs) |->
                LinearRun(horz[k].runs[j][1], k - 1, horz[k].runs[j][2])]]),
        verticalRuns |->
            Flatten([k \in 1 .. size |-> [j \in 1 .. Len(vert[k].runs) |->
                LinearRun(k - 1, vert[k].runs[j][1], vert[k].runs[j][2])]]),
        twoByTwoBoxes |-> boxes,
        horizontalFalseFinders |->
            Flatten([k \in 1 .. size |-> [j \in 1 .. Len(horz[k].finders) |->
                LinearRun(horz[k].finders[j][1], k - 1, horz[k].finders[j][2])]]),
        verticalFalseFinders |->
            Flatten([k \in 1 .. size |-> [j \in 1 .. Len(vert[k].finders) |->
                LinearRun(k - 1, vert[k].finders[j][1], vert[k].finders[j][2])]]),
        numBlackModules |-> black,
        penaltyPoints |->
            << SumOver(StoredSeq([k \in 1 .. size |-> horz[k].n1 + vert[k].n1]), size),
               Len(boxes) * PENALTY_N2,
               SumOver(StoredSeq([k \in 1 .. size |-> horz[k].n3 + vert[k].n3]), size),
               BalanceSteps(black, total, 0) * PENALTY_N4 >>]

(***************************************************************************)
(* ReedSolomonGenerator.                                                   *)
(***************************************************************************)
\* the loop of multiply, i counting down from 7 to 0 (0x11D = 285)
RECURSIVE MultiplyLoop(_, _, _, _)
MultiplyLoop(x, y, i, z) ==
    IF i < 0 THEN z
    ELSE LET z1 == BitXor(Shl(z, 1), Shr(z, 7) * 285)
         IN MultiplyLoop(x, y, i - 1, BitXor(z1, ((y \div Pow2(i)) % 2) * x))

\* the loop of multiply stopping before bit 0 of y
RECURSIVE MultiplyLoop_SkipsBit0(_, _, _, _)
MultiplyLoop_SkipsBit0(x, y, i, z) ==
    IF i < 1 THEN z
    ELSE LET z1 == BitXor(Shl(z, 1), Shr(z, 7) * 285)
         IN MultiplyLoop_SkipsBit0(x, y, i - 1, BitXor(z1, ((y \div Pow2(i)) % 2) * x))

\* multiply with the loop that stops before bit 0 of y
multiply_SkipsBit0(x, y) ==
    IF Shr(x, 8) # 0 \/ Shr(y, 8) # 0
    THEN [err |-> "Byte out of range", z |-> 0]
    ELSE LET z == MultiplyLoop_SkipsBit0(x, y, 7, 0)
         IN IF Shr(z, 8) # 0 THEN [err |-> "Assertion error", z |-> 0]
            ELSE [err |-> "none", z |-> z]

\* multiply: a record [err, z]
multiply(x, y) ==
    IF Shr(x, 8) # 0 \/ Shr(y, 8) # 0
    THEN [err |-> "Byte out of range", z |-> 0]
    ELSE LET z == MultiplyLoop(x, y, 7, 0)
         IN IF Shr(z, 8) # 0 THEN [err |-> "Assertion error", z |-> 0]
            ELSE [err |-> "none", z |-> z]

\* GeneratorPass with the root multiplied by 0x03 after the pass
GeneratorPass_RootTimes3(st) ==
    LET n == Len(st.coefs)
        prods == StoredSeq([j \in 1 .. n |-> multiply(st.coefs[j], st.root)])
        next == multiply(st.root, 3)
        bad == {j \in 1 .. n : prods[j].err # "none"}
    IN IF st.err # "none" THEN st
       ELSE IF bad # {}
       THEN [st EXCEPT !.err = prods[CHOOSE j \in bad : \A k \in bad : j <= k].err]
       ELSE IF next.err # "none" THEN [st EXCEPT !.err = next.err]
       ELSE [err |-> "none",
             coefs |-> StoredSeq([j \in 1 .. n |->
                          IF j + 1 <= n THEN BitXor(prods[j].z, st.coefs[j + 1]) ELSE prods[j].z]),
             root |-> next.z]

\* One pass of the outer loop of the constructor, on [err, coefs, root]: every
\* coefs[j] becomes multiply(coefs[j], root) ^ coefs[j + 1], the latter still the
\* value of before the pass, and root becomes multiply(root, 0x02).
GeneratorPass(st) ==
    LET n == Len(st.coefs)
        prods == StoredSeq([j \in 1 .. n |-> multiply(st.coefs[j], st.root)])
        next == multiply(st.root, 2)
        bad == {j \in 1 .. n : prods[j].err # "none"}
    IN IF st.err # "none" THEN st
       ELSE IF bad # {}
       THEN [st EXCEPT !.err = prods[CHOOSE j \in bad : \A k \in bad : j <= k].err]
       ELSE IF next.err # "none" THEN [st EXCEPT !.err = next.err]
       ELSE [err |-> "none",
             coefs |-> StoredSeq([j \in 1 .. n |->
                          IF j + 1 <= n THEN BitXor(prods[j].z, st.coefs[j + 1]) ELSE prods[j].z]),
             root |-> next.z]

\* passes lo .. hi of the outer loop of the constructor
RECURSIVE GeneratorPasses(_, _, _)
GeneratorPasses(st, lo, hi) ==
    IF lo > hi THEN st
    ELSE IF lo = hi THEN GeneratorPass(st)
    ELSE LET mid == (lo + hi) \div 2
             half == GeneratorPasses(st, lo, mid)
         IN IF half.err # "none" THEN half ELSE GeneratorPasses(half, mid + 1, hi)

\* new ReedSolomonGenerator(degree): a record [err, coefficients]
ReedSolomonGenerator(degree) ==
    IF degree < 1 \/ degree > 255
    THEN [err |-> "Degree out of range", coefficients |-> <<>>]
    ELSE LET start == [err |-> "none",
                       coefs |-> StoredSeq([j \in 1 .. degree |-> IF j = degree THEN 1 ELSE 0]),
                       root |-> 1]
             end == GeneratorPasses(start, 1, degree)
         IN [err |-> end.err, coefficients |-> end.coefs]

\* one pass of the loop of getRemainder over a data byte b, on [err, result]
RemainderPass(coefficients, st, b) ==
    LET n == Len(coefficients)
        shifted == IF n = 0 THEN <<0>> ELSE Tail(st.result) \o <<0>>
        factor == BitXor(b, st.result[1])
        prods == StoredSeq([i \in 1 .. Len(shifted) |-> multiply(coefficients[i], factor)])
        bad == {i \in 1 .. Len(shifted) : prods[i].err # "none"}
    IN IF st.err # "none" THEN st
       ELSE IF bad # {}
       THEN [st EXCEPT !.err = prods[CHOOSE i \in bad : \A k \in bad : i <= k].err]
       ELSE [err |-> "none",
             result |-> StoredSeq([i \in 1 .. Len(shifted) |-> BitXor(shifted[i], prods[i].z)])]

RECURSIVE RemainderLoop(_, _, _, _)
RemainderLoop(coefficients, st, dat, k) ==
    IF k > Len(dat) THEN st
    ELSE LET after == RemainderPass(coefficients, st, dat[k])
         IN IF after.err # "none" THEN after
            ELSE RemainderLoop(coefficients, after, dat, k + 1)

\* getRemainder with result starting as a copy of the coefficients
getRemainder_InitCoefficients(coefficients, dat) ==
    RemainderLoop(coefficients, [err |-> "none", result |-> coefficients], dat, 1)

\* getRemainder: a record [err, result]
getRemainder(coefficients, dat) ==
    RemainderLoop(coefficients,
                  [err |-> "none", result |-> StoredSeq([i \in 1 .. Len(coefficients) |-> 0])],
                  dat, 1)

(***************************************************************************)
(* The grid operations in any order: specification Spec.                   *)
(***************************************************************************)
NoScan == [made |-> FALSE, cells |-> <<>>]
NoMask == [made |-> FALSE, index |-> -1, g |-> <<>>]

\* drawTimingPatterns, drawFinderPatterns, drawAlignmentPatterns, drawFormatBits(-1),
\* drawVersionInformation called in this order on a new grid
StructuralGrid(ver, level) ==
    LET size == SizeOf(ver)
        g1 == StoredGrid(drawTimingPatterns(NewModules(ver), size))
        g2 == StoredGrid(drawFinderPatterns(g1, size))
        g3 == StoredGrid(drawAlignmentPatterns(g2, ver))
        g4 == StoredGrid(drawFormatBits(g3, size, level, -1).g)
    IN StoredGrid(drawVersionInformation(g4, ver, size).g)

\* the byte arrays handed to drawCodewords
DataBytes(n, mul, add) == [i \in 1 .. n |-> (i * mul + add) % 256]

DataChoices(ver) ==
    LET n == getNumRawDataModules(ver).val \div 8
    IN {DataBytes(n, 0, 255), DataBytes(n, 37, 165),
        DataBytes(n - 1, 37, 165), DataBytes(n + 1, 37, 165)}

MaskTry == -1 .. 8
\* the levels the grid operations are explored with (the level only enters drawFormatBits)
LevelsTried == {LOW, QUARTILE}
FormatMaskTry == -1 .. MaxFormatMask

\* no static query, multiply or ReedSolomonGenerator call has been made
IdleQuery == [op |-> "idle"]
IdleGf == [op |-> "idle"]
IdleRs == [op |-> "idle"]
PureIdle == query = IdleQuery /\ gf = IdleGf /\ rs = IdleRs

\* no mask selection is running
NoSelection == [phase |-> "idle"]

\* The states the exploration starts from, all of them states the calls named reach:
\* a new grid; the grid with the structural patterns drawn; that grid with a scan
\* made and codewords drawn.
StartStates(ver, level) ==
    LET sg == StructuralGrid(ver, level)
        zz == makeZigZagScan(sg, SizeOf(ver))
        n == getNumRawDataModules(ver).val \div 8
    IN   {[g |-> NewModules(ver), scan |-> NoScan, data |-> <<>>, op |-> "new"],
          [g |-> sg, scan |-> NoScan, data |-> <<>>, op |-> "drawVersionInformation"]}
       \cup
         {[g |-> drawCodewords(sg, ver, dat, zz).g, scan |-> [made |-> TRUE, cells |-> zz],
           data |-> dat, op |-> "drawCodewords"] :
             dat \in {DataBytes(n, 37, 165)}}

Init ==
    /\ version \in MIN_VERSION .. MaxVersion
    /\ ecl \in LevelsTried
    /\ \E s \in StartStates(version, ecl) :
          /\ modules = s.g
          /\ scan = s.scan
          /\ data = s.data
          /\ op = s.op
    /\ unfilledColor = NewUnfilledColor(version)
    /\ mask = NoMask
    /\ err = "none"
    /\ steps = 0
    /\ maskUses = 0
    /\ sel = NoSelection
    /\ PureIdle

Called(name, e) ==
    /\ steps < MaxSteps
    /\ steps' = steps + 1
    /\ op' = name
    /\ err' = e
    /\ UNCHANGED <<version, ecl, sel, pureVars>>

DrawTimingPatterns ==
    /\ Called("drawTimingPatterns", "none")
    /\ modules' = drawTimingPatterns(modules, SizeOf(version))
    /\ UNCHANGED <<unfilledColor, scan, mask, data, maskUses>>

DrawFinderPatterns ==
    /\ Called("drawFinderPatterns", "none")
    /\ modules' = drawFinderPatterns(modules, SizeOf(version))
    /\ UNCHANGED <<unfilledColor, scan, mask, data, maskUses>>

DrawAlignmentPatterns ==
    /\ Called("drawAlignmentPatterns", "none")
    /\ modules' = drawAlignmentPatterns(modules, version)
    /\ UNCHANGED <<unfilledColor, scan, mask, data, maskUses>>

DrawFormatBits ==
    \E msk \in FormatMaskTry :
        LET r == drawFormatBits(modules, SizeOf(version), ecl, msk)
        IN /\ Called("drawFormatBits", r.err)
           /\ modules' = r.g
           /\ UNCHANGED <<unfilledColor, scan, mask, data, maskUses>>

DrawVersionInformation ==
    LET r == drawVersionInformation(modules, version, SizeOf(version))
    IN /\ Called("drawVersionInformation", r.err)
       /\ modules' = r.g
       /\ UNCHANGED <<unfilledColor, scan, mask, data, maskUses>>

MakeZigZagScan ==
    /\ Called("makeZigZagScan", "none")
    /\ scan' = [made |-> TRUE, cells |-> makeZigZagScan(modules, SizeOf(version))]
    /\ UNCHANGED <<modules, unfilledColor, mask, data, maskUses>>

DrawCodewords ==
    /\ scan.made
    /\ \E dat \in DataChoices(version) :
          LET r == drawCodewords(modules, version, dat, scan.cells)
          IN /\ Called("drawCodewords", r.err)
             /\ modules' = r.g
             /\ data' = dat
    /\ UNCHANGED <<unfilledColor, scan, mask, maskUses>>

MakeMask ==
    \E msk \in MaskTry :
        LET r == makeMask(modules, version, msk)
        IN /\ Called("makeMask", r.err)
           /\ IF r.err = "none"
              THEN /\ mask' = [made |-> TRUE, index |-> msk, g |-> r.g]
                   /\ maskUses' = 0
              ELSE UNCHANGED <<mask, maskUses>>
           /\ UNCHANGED <<modules, unfilledColor, scan, data>>

ApplyMask ==
    /\ mask.made
    /\ Called("applyMask", "none")
    /\ modules' = applyMask(modules, SizeOf(version), mask.g)
    /\ unfilledColor' = applyMaskUnfilled(modules, unfilledColor, SizeOf(version), mask.g)
    /\ maskUses' = maskUses + 1
    /\ UNCHANGED <<scan, mask, data>>

Next ==
    \/ DrawTimingPatterns
    \/ DrawFinderPatterns
    \/ DrawAlignmentPatterns
    \/ DrawFormatBits
    \/ DrawVersionInformation
    \/ MakeZigZagScan
    \/ DrawCodewords
    \/ MakeMask
    \/ ApplyMask

Spec == Init /\ [][Next]_vars

(***************************************************************************)
(* Predicates on grids used by the properties.                             *)
(***************************************************************************)
Coords == 0 .. SizeOf(version) - 1

\* every cell a structural pattern covers is a FunctionModule, and no other cell is
StructuralDrawn(g) ==
    LET sg == StructuralGrid(version, LOW)
    IN \A x \in Coords, y \in Coords : IsFunctionModule(g[x][y]) <=> IsFunctionModule(sg[x][y])

NoUnfilled(g) == \A x \in Coords, y \in Coords : IsFilledModule(g[x][y])

NoDataDrawn(g) == \A x \in Coords, y \in Coords : g[x][y].kind \notin {"Codeword", "Remainder"}

\* the scan held is the one makeZigZagScan returns for the grid as it is
ScanIsCurrent == scan.made /\ scan.cells = makeZigZagScan(modules, SizeOf(version))

\* the mask held is the one makeMask returns for the grid as it is
MaskIsCurrent == mask.made /\ mask.g = makeMask(modules, version, mask.index).g

\* the step leaves every FunctionModule as it is
StructuralKept ==
    \A x \in Coords, y \in Coords :
        IsFunctionModule(modules[x][y]) => modules'[x][y] = modules[x][y]

\* the bytes read from the first 8*n cells of a scan, most significant bit first
ReadBack(g, zz, n) ==
    [b \in 1 .. n |->
        LET bit(k) == IF g[zz[8 * (b - 1) + k + 1][1]][zz[8 * (b - 1) + k + 1][2]].color
                      THEN Pow2(7 - k) ELSE 0
        IN bit(0) + bit(1) + bit(2) + bit(3) + bit(4) + bit(5) + bit(6) + bit(7)]

(***************************************************************************)
(* C1.  As claimed: a call of drawCodewords or applyMask, with a scan or   *)
(* mask that makeZigZagScan or makeMask returned at any earlier point,     *)
(* leaves every Structural cell the same cell with the same color.         *)
(***************************************************************************)
C1_StructuralKeptAnyScanOrMask ==
    [][op' \in {"drawCodewords", "applyMask"} => StructuralKept]_vars

(***************************************************************************)
(* C1, amended: a call of drawCodewords with the scan makeZigZagScan       *)
(* returns for the grid as it is at the call, or of applyMask with the     *)
(* mask makeMask returns for the grid as it is at the call, leaves every   *)
(* Structural cell the same cell with the same color.                      *)
(***************************************************************************)
C1_StructuralKeptCurrentScanOrMask ==
    [][  /\ (op' = "drawCodewords" /\ ScanIsCurrent => StructuralKept)
         /\ (op' = "applyMask" /\ MaskIsCurrent => StructuralKept)]_vars

C1_Witness ==
    /\ op = "applyMask"
    /\ MaskIsCurrent
    /\ data # <<>>
    /\ \E x \in Coords, y \in Coords : IsFunctionModule(modules[x][y])
    /\ \E x \in Coords, y \in Coords : modules[x][y].kind = "Codeword" /\ mask.g[x][y].color

(***************************************************************************)
(* C2.  On a grid with all structural patterns and the codewords drawn,    *)
(* applyMask(makeMask(i)) leaves the color of every Structural cell as it  *)
(* was; a cell whose color changes is a Data (Codeword) or Remainder cell. *)
(***************************************************************************)
C2_MaskChangesOnlyData ==
    [][op' = "applyMask" /\ NoUnfilled(modules) /\ StructuralDrawn(modules) /\ MaskIsCurrent
         => \A x \in Coords, y \in Coords :
               /\ modules'[x][y].kind = modules[x][y].kind
               /\ IsFunctionModule(modules[x][y]) => modules'[x][y].color = modules[x][y].color
               /\ modules'[x][y].color # modules[x][y].color
                     => modules[x][y].kind \in {"Codeword", "Remainder"}]_vars

C2_Witness ==
    /\ op = "applyMask"
    /\ maskUses = 1
    /\ NoUnfilled(modules)
    /\ StructuralDrawn(modules)
    /\ MaskIsCurrent
    /\ Len(scan.cells) >= 8 * Len(data)
    /\ data # <<>>
    /\ ReadBack(modules, scan.cells, Len(data)) # data

(***************************************************************************)
(* C3.  applyMask is an involution: on a fully filled grid, applying the   *)
(* mask made by makeMask(i) a second time gives every cell the color it    *)
(* had before the first application.                                       *)
(***************************************************************************)
C3_ApplyMaskTwiceRestores ==
    [][op' = "applyMask" /\ NoUnfilled(modules)
         => applyMask(modules', SizeOf(version), mask'.g) = modules]_vars

C3_Witness ==
    /\ op = "applyMask"
    /\ maskUses = 2
    /\ NoUnfilled(modules)
    /\ applyMask(modules, SizeOf(version), mask.g) # modules

(***************************************************************************)
(* C4.  Round trip of data placement: after drawCodewords(data, scan),     *)
(* with scan made on the grid with all structural patterns drawn, the      *)
(* colors of the scan's first 8*len cells, read 8 per byte most            *)
(* significant bit first, are the bytes of data.                           *)
(***************************************************************************)
C4_PlacedBytesReadBack ==
    [][op' = "drawCodewords" /\ err' = "none" /\ ScanIsCurrent
          /\ NoDataDrawn(modules) /\ StructuralDrawn(modules)
         => /\ Len(scan.cells) >= 8 * Len(data')
            /\ ReadBack(modules', scan.cells, Len(data')) = data']_vars

C4_Witness ==
    /\ op = "drawCodewords"
    /\ err = "none"
    /\ steps >= 2
    /\ StructuralDrawn(modules)
    /\ Len(data) = getNumRawDataModules(version).val \div 8
    /\ Len(scan.cells) >= 8 * Len(data)
    /\ ReadBack(modules, scan.cells, Len(data)) = data
    /\ \E i \in 1 .. Len(data) : data[i] \notin {0, 255}

(***************************************************************************)
(* C5.  drawCodewords with a byte count other than                         *)
(* floor(getNumRawDataModules(version) / 8) throws "Invalid argument" and  *)
(* changes no cell.                                                        *)
(***************************************************************************)
C5_WrongLengthThrows ==
    [][op' = "drawCodewords" /\ Len(data') # getNumRawDataModules(version).val \div 8
         => /\ err' = "Invalid argument"
            /\ modules' = modules
            /\ unfilledColor' = unfilledColor]_vars

C5_Witness ==
    /\ op = "drawCodewords"
    /\ err = "Invalid argument"
    /\ Len(data) # getNumRawDataModules(version).val \div 8
    /\ Len(scan.cells) > 0
    /\ \E x \in Coords, y \in Coords : IsUnfilledModule(modules[x][y])

(***************************************************************************)
(* The constructor alone: specification SpecCtor.  It starts with no       *)
(* object and makes one call new QrCode(ver, level).                       *)
(***************************************************************************)
VersionsTried == (MIN_VERSION - VersionsBelow) .. (MAX_VERSION + VersionsAbove)

CtorInit ==
    /\ version = 0
    /\ ecl = LOW
    /\ modules = <<>>
    /\ unfilledColor = <<>>
    /\ scan = NoScan
    /\ mask = NoMask
    /\ data = <<>>
    /\ op = "none"
    /\ err = "none"
    /\ steps = 0
    /\ maskUses = 0
    /\ sel = NoSelection
    /\ PureIdle

Construct ==
    /\ op = "none"
    /\ \E ver \in VersionsTried, level \in ErrorCorrectionLevel :
          LET q == QrCode(ver, level)
          IN /\ op' = "new"
             /\ err' = q.err
             /\ version' = q.version
             /\ ecl' = q.errorCorrectionLevel
             /\ modules' = q.modules
             /\ unfilledColor' = NewUnfilledColor(ver)
    /\ UNCHANGED <<scan, mask, data, steps, maskUses, sel, pureVars>>

CtorNext == Construct

SpecCtor == CtorInit /\ [][CtorNext]_vars

(***************************************************************************)
(* C6.  As claimed: new QrCode(version, level) raises a range error and    *)
(* yields no grid when version < 1 or version > 40, and for version in     *)
(* 1..40 yields a size x size grid, size = version*4 + 17, of Unfilled     *)
(* cells.  The constructor has no check of the version: the first half     *)
(* fails.                                                                  *)
(***************************************************************************)
C6_ConstructorRejectsVersion ==
    op = "new" =>
        IF version < MIN_VERSION \/ version > MAX_VERSION
        THEN err # "none" /\ modules = <<>>
        ELSE /\ err = "none"
             /\ DOMAIN modules = 0 .. (version * 4 + 17) - 1
             /\ \A x \in DOMAIN modules :
                   /\ DOMAIN modules[x] = 0 .. (version * 4 + 17) - 1
                   /\ \A y \in DOMAIN modules[x] : IsUnfilledModule(modules[x][y])

\* a version in range is constructed as claimed
C6_Witness ==
    /\ op = "new"
    /\ version = MAX_VERSION
    /\ err = "none"
    /\ Cardinality(DOMAIN modules) = 177
    /\ \A x \in DOMAIN modules : \A y \in DOMAIN modules[x] : IsUnfilledModule(modules[x][y])

(***************************************************************************)
(* The static capacity queries: specification SpecQuery makes one call of  *)
(* getNumRawDataModules or getNumDataCodewords.                            *)
(***************************************************************************)
GetNumRawDataModules ==
    /\ query = IdleQuery
    /\ \E ver \in VersionsTried :
          LET r == getNumRawDataModules(ver)
          IN query' = [op |-> "getNumRawDataModules", ver |-> ver, level |-> LOW,
                       err |-> r.err, val |-> r.val]
    /\ UNCHANGED <<gridVars, gf, rs>>

GetNumDataCodewords ==
    /\ query = IdleQuery
    /\ \E ver \in VersionsTried, level \in ErrorCorrectionLevel :
          LET r == getNumDataCodewords(ver, level)
          IN query' = [op |-> "getNumDataCodewords", ver |-> ver, level |-> level,
                       err |-> r.err, val |-> r.val]
    /\ UNCHANGED <<gridVars, gf, rs>>

QueryNext ==
    \/ GetNumRawDataModules
    \/ GetNumDataCodewords

SpecQuery == CtorInit /\ [][QueryNext]_vars

\* the value the claim states for a version v
ClaimedRawDataModules(v) ==
    LET a == (v \div 7) + 2
    IN ((16 * v + 128) * v + 64)
       - (IF v >= 2 THEN (25 * a - 10) * a - 55 ELSE 0)
       - (IF v >= 7 THEN 36 ELSE 0)

\* the same without the 36 of the version information
RawDataModulesWithVersionInfo(v) ==
    LET a == (v \div 7) + 2
    IN ((16 * v + 128) * v + 64) - (IF v >= 2 THEN (25 * a - 10) * a - 55 ELSE 0)

(***************************************************************************)
(* C7.  getNumRawDataModules(v) is (16v+128)v+64, minus (25a-10)a-55 with  *)
(* a = floor(v/7)+2 when v >= 2, minus 36 exactly when v >= 7, for v in    *)
(* 1..40: 208 for v = 1, no 36 subtracted for v in 1..6; the call throws   *)
(* for v outside 1..40.                                                    *)
(***************************************************************************)
C7_RawDataModulesFormula ==
    query.op = "getNumRawDataModules" =>
        IF query.ver \in 1 .. 40
        THEN /\ query.err = "none"
             /\ query.val = ClaimedRawDataModules(query.ver)
             /\ query.ver = 1 => query.val = 208
             /\ query.ver \in 1 .. 6 => query.val = RawDataModulesWithVersionInfo(query.ver)
             /\ query.ver >= 7 => query.val = RawDataModulesWithVersionInfo(query.ver) - 36
        ELSE query.err = "Version number out of range"

C7_Witness ==
    /\ query.op = "getNumRawDataModules"
    /\ query.ver = 7
    /\ query.err = "none"
    /\ query.val = 1568

(***************************************************************************)
(* Mask selection: specification SpecSelect.  The loop that selects the    *)
(* mask is not a method of QrCode; it is modelled from the specification   *)
(* (section 4.4): for every candidate index 0..7, draw that index's format *)
(* bits onto a working grid, apply the mask, compute the penalties, track  *)
(* the minimum total, the lowest index winning a tie; the winner's grid is *)
(* the final grid.  What it calls (drawFormatBits, makeMask, applyMask,    *)
(* computePenalties) is the code's.                                        *)
(***************************************************************************)
\* the working grid of candidate i: a copy of g with i's format bits drawn and
\* i's mask made and applied
CandidateGrid(g, ver, level, i) ==
    LET size == SizeOf(ver)
        drawn == StoredGrid(drawFormatBits(g, size, level, i).g)
        made == StoredGrid(makeMask(drawn, ver, i).g)
    IN StoredGrid(applyMask(drawn, size, made))

\* the sum of the four sub-totals
PenaltyTotal(info) ==
    info.penaltyPoints[1] + info.penaltyPoints[2] + info.penaltyPoints[3] + info.penaltyPoints[4]

CandidateTotal(g, ver, level, i) ==
    PenaltyTotal(computePenalties(CandidateGrid(g, ver, level, i), SizeOf(ver)))

\* the grid selection starts from: the structural patterns, then the codewords
SelectBase(ver, level, dat) ==
    LET sg == StructuralGrid(ver, level)
    IN StoredGrid(drawCodewords(sg, ver, dat, makeZigZagScan(sg, SizeOf(ver))).g)

\* the data selection is run on
SelectData(ver) ==
    LET n == getNumRawDataModules(ver).val \div 8
    IN {DataBytes(n, 0, 123), DataBytes(n, 0, 95), DataBytes(n, 1, 35), DataBytes(n, 37, 165)}

SelectInit ==
    /\ version \in MIN_VERSION .. MaxSelectVersion
    /\ ecl \in ErrorCorrectionLevel
    /\ data \in SelectData(version)
    /\ modules = SelectBase(version, ecl, data)
    /\ unfilledColor = NewUnfilledColor(version)
    /\ scan = [made |-> TRUE,
               cells |-> makeZigZagScan(StructuralGrid(version, ecl), SizeOf(version))]
    /\ mask = NoMask
    /\ op = "drawCodewords"
    /\ err = "none"
    /\ steps = 0
    /\ maskUses = 0
    /\ sel = [phase |-> "scoring", next |-> 0, best |-> -1, bestTotal |-> 0, totals |-> <<>>]
    /\ PureIdle

\* tracking in which an equal total replaces the minimum too
TrackMinimum_LastWins(s, i, total) ==
    IF s.best = -1 \/ total <= s.bestTotal
    THEN [s EXCEPT !.best = i, !.bestTotal = total]
    ELSE s

\* the minimum so far after candidate i scored total: only a lower total replaces it
TrackMinimum(s, i, total) ==
    IF s.best = -1 \/ total < s.bestTotal
    THEN [s EXCEPT !.best = i, !.bestTotal = total]
    ELSE s

\* one candidate is scored on its working grid, which is then dropped
ScoreCandidate ==
    /\ sel.phase = "scoring"
    /\ sel.next <= 7
    /\ \E total \in {CandidateTotal(modules, version, ecl, sel.next)} :
          sel' = [TrackMinimum(sel, sel.next, total) EXCEPT
                      !.next = @ + 1, !.totals = Append(@, total)]
    /\ op' = "score"
    /\ UNCHANGED <<version, ecl, modules, unfilledColor, scan, mask, data, err, steps,
                   maskUses, pureVars>>

\* the winner's format bits are drawn and its mask is applied to the grid
FinalizeSelection ==
    /\ sel.phase = "scoring"
    /\ sel.next = 8
    /\ sel' = [sel EXCEPT !.phase = "done"]
    /\ op' = "select"
    /\ modules' = CandidateGrid(modules, version, ecl, sel.best)
    /\ mask' = [made |-> TRUE, index |-> sel.best,
                g |-> makeMask(modules, version, sel.best).g]
    /\ maskUses' = 1
    /\ unfilledColor' = applyMaskUnfilled(modules, unfilledColor, SizeOf(version),
                                          makeMask(modules, version, sel.best).g)
    /\ UNCHANGED <<version, ecl, scan, data, err, steps, pureVars>>

SelectNext ==
    \/ ScoreCandidate
    \/ FinalizeSelection

SpecSelect == SelectInit /\ [][SelectNext]_vars

\* the 15 format bits read from the second copy on a grid (the cells drawFormatBits
\* writes bits 0..7 and 8..14 to), and the mask index they carry
ReadFormatBits(g, size) ==
    LET bit(i) == IF i < 8 THEN g[size - 1 - i][8].color ELSE g[8][size - 15 + i].color
    IN SumOver([k \in 1 .. 15 |-> IF bit(k - 1) THEN Pow2(k - 1) ELSE 0], 15)

ReadMaskIndex(g, size) == (BitXor(ReadFormatBits(g, size), 21522) \div 1024) % 8

OperandsTried == (0 - BytesBelow) .. (255 + BytesAbove)

Multiply ==
    /\ gf = IdleGf
    /\ \E x \in OperandsTried, y \in OperandsTried :
          \E r \in {multiply(x, y)} :
              gf' = [op |-> "multiply", x |-> x, y |-> y, err |-> r.err, z |-> r.z]
    /\ UNCHANGED <<gridVars, query, rs>>

GFNext == Multiply

SpecGF == CtorInit /\ [][GFNext]_vars

(***************************************************************************)
(* C9.  For x and y in 0..255: multiply(x,1) = x, multiply(x,0) = 0,       *)
(* multiply(x,y) = multiply(y,x), and the result is in 0..255, so the      *)
(* 8-bit assertion does not fire; an operand outside 0..255 raises         *)
(* "Byte out of range".                                                    *)
(***************************************************************************)
C9_MultiplyLaws ==
    gf.op = "multiply" =>
        IF gf.x \in 0 .. 255 /\ gf.y \in 0 .. 255
        THEN /\ gf.err = "none"
             /\ gf.z \in 0 .. 255
             /\ gf.y = 1 => gf.z = gf.x
             /\ gf.y = 0 => gf.z = 0
             /\ multiply(gf.y, gf.x) = [err |-> "none", z |-> gf.z]
        ELSE gf.err = "Byte out of range"

C9_Witness ==
    /\ gf.op = "multiply"
    /\ gf.x = 2
    /\ gf.y = 128
    /\ gf.err = "none"
    /\ gf.z = 29

(***************************************************************************)
(* ReedSolomonGenerator: specification SpecRS constructs a generator and   *)
(* calls getRemainder on it once.                                          *)
(***************************************************************************)
DegreesTried ==
    ((1 - DegreesBelow) .. MaxDegree) \cup (255 .. (255 + DegreesAbove))

\* the data bytes tried
RemainderBytes == {0, 1, 255}

RECURSIVE SeqsUpTo(_, _)
SeqsUpTo(S, n) ==
    IF n = 0 THEN {<<>>}
    ELSE LET shorter == SeqsUpTo(S, n - 1)
         IN shorter \cup {Append(q, b) : q \in shorter, b \in S}

NewGenerator ==
    /\ rs = IdleRs
    /\ \E degree \in DegreesTried :
          \E r \in {ReedSolomonGenerator(degree)} :
              rs' = [op |-> "new", degree |-> degree, err |-> r.err,
                     coefficients |-> r.coefficients, data |-> <<>>, result |-> <<>>]
    /\ UNCHANGED <<gridVars, query, gf>>

GetRemainder ==
    /\ rs.op = "new"
    /\ rs.err = "none"
    /\ \E dat \in SeqsUpTo(RemainderBytes, MaxDataLen) :
          \E r \in {getRemainder(rs.coefficients, dat)} :
              rs' = [rs EXCEPT !.op = "getRemainder", !.err = r.err,
                               !.data = dat, !.result = r.result]
    /\ UNCHANGED <<gridVars, query, gf>>

RSNext ==
    \/ NewGenerator
    \/ GetRemainder

SpecRS == CtorInit /\ [][RSNext]_vars

AllZero(q) == \A i \in 1 .. Len(q) : q[i] = 0

(***************************************************************************)
(* C10.  For a degree d in 1..255 and any data sequence, the empty one     *)
(* included, getRemainder returns exactly d bytes, all of them 0 when      *)
(* every data byte is 0; new ReedSolomonGenerator(d) with d outside        *)
(* 1..255 raises "Degree out of range".                                    *)
(***************************************************************************)
C10_RemainderLengthAndZero ==
    /\ rs.op = "new" =>
          IF rs.degree \in 1 .. 255 THEN rs.err = "none"
          ELSE rs.err = "Degree out of range"
    /\ rs.op = "getRemainder" =>
          /\ rs.degree \in 1 .. 255
          /\ rs.err = "none"
          /\ Len(rs.result) = rs.degree
          /\ \A i \in 1 .. Len(rs.result) : rs.result[i] \in 0 .. 255
          /\ AllZero(rs.data) => AllZero(rs.result)

C10_Witness ==
    /\ rs.op = "getRemainder"
    /\ rs.degree = 255
    /\ Len(rs.data) >= 2
    /\ AllZero(rs.data)
    /\ Len(rs.result) = 255
    /\ AllZero(rs.result)

(***************************************************************************)
(* A symbol end to end: specification SpecE2E.  On the grid with the       *)
(* structural patterns drawn and the scan made, drawCodewords is called    *)
(* once, then drawFormatBits(i), then makeMask(i) and applyMask.           *)
(***************************************************************************)
\* the arrays handed to drawCodewords: all-zero arrays of getNumDataCodewords and of
\* floor(getNumRawDataModules / 8) bytes, and other arrays of the latter length
E2EData(ver, level) ==
    LET n == getNumRawDataModules(ver).val \div 8
        k == getNumDataCodewords(ver, level).val
    IN {DataBytes(k, 0, 0), DataBytes(n, 0, 0), DataBytes(n, 0, 255), DataBytes(n, 37, 165)}

E2EInit ==
    /\ version \in MIN_VERSION .. MaxE2EVersion
    /\ ecl \in ErrorCorrectionLevel
    /\ modules = StructuralGrid(version, ecl)
    /\ unfilledColor = NewUnfilledColor(version)
    /\ scan = [made |-> TRUE,
               cells |-> makeZigZagScan(StructuralGrid(version, ecl), SizeOf(version))]
    /\ mask = NoMask
    /\ data = <<>>
    /\ op = "makeZigZagScan"
    /\ err = "none"
    /\ steps = 0
    /\ maskUses = 0
    /\ sel = NoSelection
    /\ PureIdle

E2EDrawCodewords ==
    /\ op = "makeZigZagScan"
    /\ \E dat \in E2EData(version, ecl) :
          LET r == drawCodewords(modules, version, dat, scan.cells)
          IN /\ err' = r.err
             /\ modules' = r.g
             /\ data' = dat
    /\ op' = "drawCodewords"
    /\ steps' = steps + 1
    /\ UNCHANGED <<version, ecl, unfilledColor, scan, mask, maskUses, sel, pureVars>>

E2EDrawFormatBits ==
    /\ op = "drawCodewords"
    /\ err = "none"
    /\ \E msk \in 0 .. 7 :
          LET r == drawFormatBits(modules, SizeOf(version), ecl, msk)
          IN /\ err' = r.err
             /\ modules' = r.g
             /\ mask' = [made |-> FALSE, index |-> msk, g |-> <<>>]
    /\ op' = "drawFormatBits"
    /\ steps' = steps + 1
    /\ UNCHANGED <<version, ecl, unfilledColor, scan, data, maskUses, sel, pureVars>>

\* makeMask(i) for the index whose format bits were drawn, and applyMask with it
E2EApplyMask ==
    /\ op = "drawFormatBits"
    /\ err = "none"
    /\ LET r == makeMask(modules, version, mask.index)
       IN /\ err' = r.err
          /\ mask' = [made |-> TRUE, index |-> mask.index, g |-> r.g]
          /\ modules' = applyMask(modules, SizeOf(version), r.g)
          /\ unfilledColor' = applyMaskUnfilled(modules, unfilledColor, SizeOf(version), r.g)
    /\ op' = "applyMask"
    /\ steps' = steps + 1
    /\ maskUses' = 1
    /\ UNCHANGED <<version, ecl, scan, data, sel, pureVars>>

E2ENext ==
    \/ E2EDrawCodewords
    \/ E2EDrawFormatBits
    \/ E2EApplyMask

SpecE2E == E2EInit /\ [][E2ENext]_vars

\* every cell of a structural pattern is the cell the structural patterns and the
\* format bits of mask index i give it on an empty grid
StructuralLayoutOf(g, i) ==
    LET sg == StructuralGrid(version, ecl)
        fixed == StoredGrid(drawFormatBits(sg, SizeOf(version), ecl, i).g)
    IN \A x \in Coords, y \in Coords :
          IF IsFunctionModule(fixed[x][y]) THEN g[x][y] = fixed[x][y]
          ELSE ~ IsFunctionModule(g[x][y])

\* the parts of the layout of version 1 the claim names, for LOW and mask index 0:
\* finder centers dark, their rings, the timing cells, the format bits 0x77C4
FixedLayoutV1Low0(g) ==
    /\ g[3][3] = FinderModule(TRUE) /\ g[17][3] = FinderModule(TRUE) /\ g[3][17] = FinderModule(TRUE)
    /\ g[1][3] = FinderModule(FALSE) /\ g[0][3] = FinderModule(TRUE) /\ g[7][3] = SeparatorModule
    /\ \A i \in 8 .. 12 : g[6][i] = TimingModule((i % 2) = 0) /\ g[i][6] = TimingModule((i % 2) = 0)
    /\ g[8][13] = BlackModule
    /\ ReadFormatBits(g, 21) = 30660

(***************************************************************************)
(* C11.  As claimed: for version 1 and level LOW, drawCodewords accepts    *)
(* the 19-byte all-zero array, and after masking with index 0 every        *)
(* structural cell holds the fixed layout.  The array drawCodewords        *)
(* accepts has 26 bytes: the first half fails.                             *)
(***************************************************************************)
C11_NineteenBytesPlaced ==
    version = 1 /\ ecl = LOW =>
        /\ op = "drawCodewords" /\ data = DataBytes(19, 0, 0) => err = "none"
        /\ op = "applyMask" /\ mask.index = 0 => StructuralLayoutOf(modules, 0)

(***************************************************************************)
(* C11, amended: for version 1 and level LOW, getNumDataCodewords is 19    *)
(* and drawCodewords accepts exactly the arrays of 26 =                    *)
(* floor(getNumRawDataModules(1) / 8) bytes (the 19-byte all-zero array    *)
(* throws "Invalid argument"); with a 26-byte array placed, all-zero or    *)
(* not, and mask index 0 drawn and applied, every structural cell holds    *)
(* the fixed finder/timing/format layout.  The same is checked for the     *)
(* other levels and mask indices.                                          *)
(***************************************************************************)
C11_CapacityBytesPlacedAndLayoutFixed ==
    /\ op = "drawCodewords" =>
          /\ err = (IF Len(data) = getNumRawDataModules(version).val \div 8
                    THEN "none" ELSE "Invalid argument")
          /\ Len(data) = getNumDataCodewords(version, ecl).val => err = "Invalid argument"
          /\ version = 1 /\ ecl = LOW /\ err = "none" => Len(data) = 26
          /\ version = 1 /\ ecl = LOW /\ err # "none" => Len(data) = 19
    /\ op = "applyMask" =>
          /\ err = "none"
          /\ StructuralLayoutOf(modules, mask.index)
          /\ version = 1 /\ ecl = LOW /\ mask.index = 0 => FixedLayoutV1Low0(modules)

C11_Witness ==
    /\ op = "applyMask"
    /\ version = 1
    /\ ecl = LOW
    /\ mask.index = 0
    /\ data = DataBytes(26, 0, 0)
    /\ StructuralLayoutOf(modules, 0)
    /\ \E x \in Coords, y \in Coords : modules[x][y] = CodewordModule(TRUE)


(***************************************************************************)
(* Mask indices of every kind handed to makeMask and drawFormatBits, on a  *)
(* new grid, on the grid with the structural patterns, and on the grid     *)
(* with the codewords drawn.                                               *)
(***************************************************************************)
MasksBelow == 3
MasksAbove == 3
MaxMaskVersion == 1
MaxMaskSteps == 2

\* from MasksBelow under -1 to MasksAbove over 7, the two ends of the indices
\* drawFormatBits takes in silence, and the two ends of int32
MaskIndexTry ==
    ((-1 - MasksBelow) .. (7 + MasksAbove)) \cup {31, 32, (-2147483647) - 1, 2147483647}

MaskInit ==
    /\ version \in MIN_VERSION .. MaxMaskVersion
    /\ ecl \in ErrorCorrectionLevel
    /\ \E st \in StartStates(version, ecl) :
          /\ modules = st.g
          /\ scan = st.scan
          /\ data = st.data
          /\ op = st.op
    /\ unfilledColor = NewUnfilledColor(version)
    /\ mask = NoMask
    /\ err = "none"
    /\ steps = 0
    /\ maskUses = 0
    /\ sel = NoSelection
    /\ PureIdle

MaskCalled(name, e) ==
    /\ steps < MaxMaskSteps
    /\ steps' = steps + 1
    /\ op' = name
    /\ err' = e
    /\ UNCHANGED <<version, ecl, sel, pureVars>>

MaskMakeMask ==
    \E msk \in MaskIndexTry :
        LET r == makeMask(modules, version, msk)
        IN /\ MaskCalled("makeMask", r.err)
           /\ mask' = [made |-> r.err = "none", index |-> msk,
                       g |-> IF r.err = "none" THEN r.g ELSE <<>>]
           /\ UNCHANGED <<modules, unfilledColor, scan, data, maskUses>>

MaskDrawFormatBits ==
    \E msk \in MaskIndexTry :
        LET r == drawFormatBits(modules, SizeOf(version), ecl, msk)
        IN /\ MaskCalled("drawFormatBits", r.err)
           /\ modules' = r.g
           /\ mask' = [made |-> FALSE, index |-> msk, g |-> <<>>]
           /\ UNCHANGED <<unfilledColor, scan, data, maskUses>>

MaskNext == MaskMakeMask \/ MaskDrawFormatBits

SpecMask == MaskInit /\ [][MaskNext]_vars

(***************************************************************************)
(* C12.  Every operation that takes a mask index rejects an index outside  *)
(* 0..7 with a fatal error and leaves the grid unchanged: makeMask throws  *)
(* for every integer outside 0..7 (-1 included), drawFormatBits for every  *)
(* integer outside 0..7 except -1.                                         *)
(***************************************************************************)
C12_OutOfRangeIndexRejected ==
    [][  /\ (op' = "makeMask" /\ mask'.index \notin 0 .. 7
                => err' = "Assertion error" /\ modules' = modules)
         /\ (op' = "drawFormatBits" /\ mask'.index \notin -1 .. 7
                => err' = "Assertion error" /\ modules' = modules)]_vars

\* drawFormatBits(8) has returned on a grid with the codewords drawn, and the
\* format cells hold the field of mask index 0
C12_Witness ==
    /\ op = "drawFormatBits"
    /\ mask.index = 8
    /\ err = "none"
    /\ data # <<>>
    /\ ReadFormatBits(modules, SizeOf(version)) = FormatBits(ecl, 0)


(***************************************************************************)
(* The two bit fields, computed turn by turn: lines 127-136 of             *)
(* drawFormatBits for every level and every mask index in -1..7, lines     *)
(* 155-163 of drawVersionInformation for every version in 1..40.           *)
(***************************************************************************)
FormatStart ==
    /\ query = IdleQuery
    /\ \E level \in ErrorCorrectionLevel, msk \in -1 .. 7 :
          LET d == IF msk # -1 THEN BitOr(Shl(level.formatBits, 3), msk) ELSE 0
          IN query' = [op |-> "drawFormatBits", level |-> level, mask |-> msk, ver |-> 0,
                       i |-> IF msk # -1 THEN 0 ELSE 10, data |-> d, rem |-> d,
                       bits |-> 0, err |-> "running"]
    /\ UNCHANGED <<gridVars, gf, rs>>

FormatTurn ==
    /\ query.op = "drawFormatBits"
    /\ query.err = "running"
    /\ query.i < 10
    /\ query' = [query EXCEPT !.i = @ + 1, !.rem = FormatRemTurn(@)]
    /\ UNCHANGED <<gridVars, gf, rs>>

FormatEnd ==
    /\ query.op = "drawFormatBits"
    /\ query.err = "running"
    /\ query.i = 10
    /\ LET bits == IF query.mask # -1
                   THEN BitXor(BitOr(Shl(query.data, 10), query.rem), 21522)
                   ELSE 0
       IN query' = [query EXCEPT !.bits = bits,
                                 !.err = IF Shr(bits, 15) # 0 THEN "Assertion error" ELSE "none"]
    /\ UNCHANGED <<gridVars, gf, rs>>

VersionStart ==
    /\ query = IdleQuery
    /\ \E ver \in MIN_VERSION .. MAX_VERSION :
          query' = [op |-> "drawVersionInformation", level |-> LOW, mask |-> -1, ver |-> ver,
                    i |-> 0, data |-> ver, rem |-> ver, bits |-> 0,
                    err |-> IF ver < 7 THEN "none" ELSE "running"]
    /\ UNCHANGED <<gridVars, gf, rs>>

VersionTurn ==
    /\ query.op = "drawVersionInformation"
    /\ query.err = "running"
    /\ query.i < 12
    /\ query' = [query EXCEPT !.i = @ + 1, !.rem = VersionRemTurn(@)]
    /\ UNCHANGED <<gridVars, gf, rs>>

VersionEnd ==
    /\ query.op = "drawVersionInformation"
    /\ query.err = "running"
    /\ query.i = 12
    /\ LET bits == BitOr(Shl(query.ver, 12), query.rem)
       IN query' = [query EXCEPT !.bits = bits,
                                 !.err = IF Shr(bits, 18) # 0 THEN "Assertion error" ELSE "none"]
    /\ UNCHANGED <<gridVars, gf, rs>>

BitsNext ==
    \/ FormatStart
    \/ FormatTurn
    \/ FormatEnd
    \/ VersionStart
    \/ VersionTurn
    \/ VersionEnd

SpecBits == CtorInit /\ [][BitsNext]_vars

(***************************************************************************)
(* C13.  With a level, a mask index in 0..7 or -1, and a version in 7..40, *)
(* neither bit-field assertion is reached: the format field fits in 15     *)
(* bits (and is 0 for -1), the version field fits in 18 bits with its top  *)
(* 6 bits the version; the remainder stays below 2^10, respectively 2^12,  *)
(* at every turn, so that rem >>> 9, respectively rem >>> 11, is one bit.  *)
(***************************************************************************)
C13_BitFieldAssertionsUnreachable ==
    /\ query.op = "drawFormatBits" =>
          /\ query.err # "Assertion error"
          /\ 0 <= query.rem /\ query.rem < 1024
          /\ Shr(query.rem, 9) \in {0, 1}
          /\ ToInt32Product(Shr(query.rem, 9), 1335) = (IF getBit(query.rem, 9) THEN 1335 ELSE 0)
          /\ query.err = "none" =>
                /\ 0 <= query.bits /\ query.bits < 32768
                /\ query.bits = FormatBits(query.level, query.mask)
                /\ query.mask = -1 => query.bits = 0
                /\ query.mask # -1 => query.bits # 0 /\ query.i = 10
    /\ query.op = "drawVersionInformation" =>
          /\ query.err # "Assertion error"
          /\ 0 <= query.rem /\ query.rem < 4096
          /\ Shr(query.rem, 11) \in {0, 1}
          /\ Shr(query.rem, 11) * 7973 = (IF getBit(query.rem, 11) THEN 7973 ELSE 0)
          /\ query.err = "none" /\ query.ver >= 7 =>
                /\ 0 <= query.bits /\ query.bits < 262144
                /\ query.bits \div 4096 = query.ver
                /\ query.bits = VersionBits(query.ver)
                /\ query.i = 12

\* both loops have run to their end with a remainder that had its top bit set on the
\* way: level QUARTILE with mask 7, and version 40
C13_Witness ==
    /\ query.op \in {"drawFormatBits", "drawVersionInformation"}
    /\ query.err = "none"
    /\ \/ /\ query.op = "drawFormatBits"
          /\ query.level = QUARTILE /\ query.mask = 7
          /\ query.i = 10 /\ query.bits = FormatBits(QUARTILE, 7) /\ query.bits \div 1024 # 31
       \/ /\ query.op = "drawVersionInformation"
          /\ query.ver = 40 /\ query.i = 12 /\ query.bits \div 4096 = 40


(***************************************************************************)
(* The polynomial of a generator, in GF(2^8) modulo 0x11D, with the        *)
(* products of multiply and the sums of ^.                                 *)
(***************************************************************************)
\* << first * 2^0, first * 2^1, ..., first * 2^(hi - lo) >>
RECURSIVE PowersOfTwoFrom(_, _, _)
PowersOfTwoFrom(first, lo, hi) ==
    IF lo > hi THEN <<>>
    ELSE IF lo = hi THEN <<first>>
    ELSE LET mid == (lo + hi) \div 2
             left == PowersOfTwoFrom(first, lo, mid)
         IN left \o PowersOfTwoFrom(multiply(left[Len(left)], 2).z, mid + 1, hi)

\* << 2^0, 2^1, ..., 2^(n-1) >>
PowersOfTwo(n) == PowersOfTwoFrom(1, 1, n)

\* Horner's rule over c[lo .. hi]: acc becomes acc * x + c[k] for k = lo, ..., hi
\* (the value of the first half is looked at before the second half starts, which
\* keeps the evaluation shallow)
RECURSIVE PolyEvalFrom(_, _, _, _, _)
PolyEvalFrom(c, x, lo, hi, acc) ==
    IF lo > hi THEN acc
    ELSE IF lo = hi THEN BitXor(multiply(acc, x).z, c[lo])
    ELSE LET mid == (lo + hi) \div 2
             half == PolyEvalFrom(c, x, lo, mid, acc)
         IN IF half \notin 0 .. 255 THEN half ELSE PolyEvalFrom(c, x, mid + 1, hi, half)

\* x^d + c[1] x^(d-1) + ... + c[d] at x, d = Len(c)
PolyEval(c, x) == PolyEvalFrom(c, x, 1, Len(c), 1)

(***************************************************************************)
(* C14.  For every degree d in 1..255 the polynomial x^d + c[0] x^(d-1) +  *)
(* ... + c[d-1] of the coefficients the constructor builds is 0 at each of *)
(* 2^0, 2^1, ..., 2^(d-1), and at no other element of the field.           *)
(***************************************************************************)
C14_GeneratorRootsArePowersOfTwo ==
    rs.op = "new" /\ rs.err = "none" =>
        LET p == PowersOfTwo(rs.degree)
            roots == {p[i] : i \in 1 .. rs.degree}
        IN /\ Len(rs.coefficients) = rs.degree
           /\ Cardinality(roots) = rs.degree
           /\ \A x \in 0 .. 255 : (PolyEval(rs.coefficients, x) = 0) <=> (x \in roots)

\* the generator of degree 255 is built: every element but 0 is a root
C14_Witness ==
    /\ rs.op = "new"
    /\ rs.err = "none"
    /\ rs.degree = 255
    /\ PolyEval(rs.coefficients, 0) # 0
    /\ PolyEval(rs.coefficients, multiply(PowersOfTwo(255)[255], 2).z) = 0


(***************************************************************************)
(* makeZigZagScan on the grids of every version: the new grid, the grid    *)
(* with the structural patterns drawn, the grid with the codewords drawn.  *)
(***************************************************************************)
ScanInit ==
    /\ version \in MIN_VERSION .. MAX_VERSION
    /\ ecl = LOW
    /\ \E st \in StartStates(version, ecl) :
          /\ modules = st.g
          /\ data = st.data
          /\ op = st.op
    /\ scan = NoScan
    /\ unfilledColor = NewUnfilledColor(version)
    /\ mask = NoMask
    /\ err = "none"
    /\ steps = 0
    /\ maskUses = 0
    /\ sel = NoSelection
    /\ PureIdle

ScanMakeZigZagScan ==
    /\ ~ scan.made
    /\ op' = "makeZigZagScan"
    /\ err' = "none"
    /\ steps' = steps + 1
    /\ scan' = [made |-> TRUE, cells |-> makeZigZagScan(modules, SizeOf(version))]
    /\ UNCHANGED <<version, ecl, modules, unfilledColor, mask, data, maskUses, sel, pureVars>>

ScanNext == ScanMakeZigZagScan

SpecScan == ScanInit /\ [][ScanNext]_vars

\* The place of a cell in the claimed order: the number of its 2-column strip counted
\* from the right edge, (size-1, size-2) being strip 0 and (8, 7), (5, 4) neighbours;
\* its row counted in the direction of the strip, upward in strip 0 and turning at
\* every strip; 0 for the right column and 1 for the left.
ClaimedPlace(xy, size) ==
    LET x == xy[1]
        y == xy[2]
        strip == IF x > 6 THEN (size - 1 - x) \div 2 ELSE ((size - 7) \div 2) + ((5 - x) \div 2)
        right == IF x > 6 THEN size - 1 - (2 * ((size - 1 - x) \div 2)) ELSE 5 - (2 * ((5 - x) \div 2))
    IN << strip, IF (strip % 2) = 0 THEN size - 1 - y ELSE y, right - x >>

Before(p, q) ==
    \/ p[1] < q[1]
    \/ p[1] = q[1] /\ p[2] < q[2]
    \/ p[1] = q[1] /\ p[2] = q[2] /\ p[3] < q[3]

(***************************************************************************)
(* C15.  makeZigZagScan returns, for every version, a sequence without     *)
(* duplicates of exactly the cells Unfilled at the call and not in column  *)
(* 6, in the order of the 2-column strips from the right edge leftward     *)
(* ((size-1, size-2), ..., (8, 7), (5, 4), (3, 2), (1, 0)), the rightmost  *)
(* strip upward and the direction turning at every strip, across column 6  *)
(* too, the right column before the left in a row; the grid is unchanged.  *)
(***************************************************************************)
C15_ScanIsOrderedUnfilledCells ==
    [][op' = "makeZigZagScan" =>
          LET size == SizeOf(version)
              zz == scan'.cells
          IN /\ modules' = modules
             /\ unfilledColor' = unfilledColor
             /\ {zz[i] : i \in 1 .. Len(zz)}
                   = {xy \in (0 .. size - 1) \X (0 .. size - 1) :
                         IsUnfilledModule(modules[xy[1]][xy[2]]) /\ xy[1] # 6}
             /\ \A i \in 1 .. Len(zz) - 1 :
                   Before(ClaimedPlace(zz[i], size), ClaimedPlace(zz[i + 1], size))]_vars

\* the scan of version 7 with the structural patterns drawn: it starts at the bottom
\* right corner, turns at the top of strip 0, and crosses column 6 going from the
\* strip (8, 7) upward to the strip (5, 4) downward
C15_Witness ==
    /\ op = "makeZigZagScan"
    /\ version = 7
    /\ modules = StructuralGrid(7, LOW)
    /\ Len(scan.cells) = getNumRawDataModules(7).val
    /\ scan.cells[1] = <<44, 44>>
    /\ scan.cells[2] = <<43, 44>>
    /\ \E i \in 1 .. Len(scan.cells) - 1 :
          /\ scan.cells[i][1] = 7 /\ scan.cells[i + 1][1] = 5
          /\ scan.cells[i][2] = 9 /\ scan.cells[i + 1][2] = 9


(***************************************************************************)
(* computePenalties on grids of every stage: the new grid and the grid     *)
(* with the structural patterns (cells still Unfilled), and grids with     *)
(* codewords, format bits and mask i drawn and applied.                    *)
(***************************************************************************)
MaxPenaltyVersion == 1

PenaltyData(ver) ==
    LET n == getNumRawDataModules(ver).val \div 8
    IN {DataBytes(n, 0, 0), DataBytes(n, 0, 255), DataBytes(n, 37, 165)}

PenaltyInit ==
    /\ version \in MIN_VERSION .. MaxPenaltyVersion
    /\ ecl \in ErrorCorrectionLevel
    /\ \/ /\ \E st \in StartStates(version, ecl) :
                /\ st.data = <<>>
                /\ modules = st.g
                /\ op = st.op
          /\ data = <<>>
          /\ mask = NoMask
          /\ scan = NoScan
       \/ /\ data \in PenaltyData(version)
          /\ \E i \in 0 .. 7, base \in {SelectBase(version, ecl, data)} :
                /\ modules = CandidateGrid(base, version, ecl, i)
                /\ mask = [made |-> FALSE, index |-> i, g |-> <<>>]
          /\ op = "applyMask"
          /\ scan = NoScan
    /\ unfilledColor = NewUnfilledColor(version)
    /\ err = "none"
    /\ steps = 0
    /\ maskUses = 0
    /\ sel = NoSelection
    /\ PureIdle

ComputePenalties ==
    /\ query = IdleQuery
    /\ query' = [op |-> "computePenalties",
                 info |-> computePenalties(modules, SizeOf(version))]
    /\ UNCHANGED <<gridVars, gf, rs>>

PenaltyNext == ComputePenalties

SpecPenalty == PenaltyInit /\ [][PenaltyNext]_vars

\* the color computePenalties reads at (x, y): dark, or light (an Unfilled cell too)
Dark(x, y) == IsFilledModule(modules[x][y]) /\ modules[x][y].color

\* row k (horizontal) or column k of the grid, as a function of the position
GridLine(horizontal, k) ==
    Stored([p \in Coords |-> IF horizontal THEN Dark(p, k) ELSE Dark(k, p)])

\* the length of the longest run of color c that ends just before position e
RECURSIVE RunBefore(_, _, _)
RunBefore(line, e, c) ==
    IF e = 0 \/ line[e - 1] # c THEN 0 ELSE 1 + RunBefore(line, e - 1, c)

\* The lengths of the seven runs that end at position e, the latest first and
\* the first of them light: light, dark, light, dark, light, dark, light.  A run
\* that would start before the line has length 0.
HistoryAt(line, e) ==
    LET h0 == RunBefore(line, e, FALSE)
        h1 == RunBefore(line, e - h0, TRUE)
        h2 == RunBefore(line, e - h0 - h1, FALSE)
        h3 == RunBefore(line, e - h0 - h1 - h2, TRUE)
        h4 == RunBefore(line, e - h0 - h1 - h2 - h3, FALSE)
        h5 == RunBefore(line, e - h0 - h1 - h2 - h3 - h4, TRUE)
        h6 == RunBefore(line, e - h0 - h1 - h2 - h3 - h4 - h5, FALSE)
    IN << h0, h1, h2, h3, h4, h5, h6 >>

\* h1 > 0, h1 = h2 = h4 = h5, h3 = 3 * h1, max(h0, h6) >= 4 * h1, on << h0, ..., h6 >>
ClaimedPattern(h) ==
    /\ h[2] > 0
    /\ h[2] = h[3] /\ h[3] = h[5] /\ h[5] = h[6]
    /\ h[4] = 3 * h[2]
    /\ Max(h[1], h[7]) >= 4 * h[2]

\* a light run ends at position e: at a dark cell that follows a light one, or at
\* the end of the line, where a dark last cell is followed by a light run of length 0
LightRunEndsAt(line, size, e) ==
    \/ e < size /\ e > 0 /\ line[e] /\ ~ line[e - 1]
    \/ e = size

\* a light run starts at position e: at a light cell that follows a dark one, or at
\* the end of the line, where a dark last cell is followed by a light run of length 0
LightRunStartsAt(line, size, e) ==
    \/ e < size /\ e > 0 /\ ~ line[e] /\ line[e - 1]
    \/ e = size /\ line[e - 1]

\* the patterns of a line as << start, length >>, in the order of their ends
PatternsOf(line, size) ==
    LET ends == SelectSeq([e \in 1 .. size |-> e],
                          LAMBDA e : LightRunEndsAt(line, size, e)
                                        /\ ClaimedPattern(HistoryAt(line, e)))
    IN [i \in 1 .. Len(ends) |->
           LET n == SumOver(HistoryAt(line, ends[i]), 7) IN << ends[i] - n, n >>]

AllPatterns(horizontal) ==
    LET size == SizeOf(version)
    IN Flatten([k \in 1 .. size |->
           LET ps == PatternsOf(GridLine(horizontal, k - 1), size)
           IN [j \in 1 .. Len(ps) |->
                  IF horizontal THEN LinearRun(ps[j][1], k - 1, ps[j][2])
                  ELSE LinearRun(k - 1, ps[j][1], ps[j][2])]])

\* the position at which a recorded pattern was found, and the line it lies in
FoundAt(horizontal, run) ==
    IF horizontal THEN run.startX + run.runLength ELSE run.startY + run.runLength

LineOfRun(horizontal, run) == GridLine(horizontal, IF horizontal THEN run.startY ELSE run.startX)

(***************************************************************************)
(* C16, as claimed: rule 3 is checked only on the transition into a light  *)
(* run, and adds 40 each time the history there is a finder-like pattern,  *)
(* the one that ends with a dark run at the end of the line included.      *)
(***************************************************************************)
C16_CheckedEnteringLightRun ==
    query.op = "computePenalties" =>
        LET size == SizeOf(version)
            info == query.info
        IN /\ info.penaltyPoints[3]
                 = PENALTY_N3 * (Len(info.horizontalFalseFinders) + Len(info.verticalFalseFinders))
           /\ \A i \in 1 .. Len(info.horizontalFalseFinders) :
                 LightRunStartsAt(LineOfRun(TRUE, info.horizontalFalseFinders[i]), size,
                                  FoundAt(TRUE, info.horizontalFalseFinders[i]))
           /\ \A i \in 1 .. Len(info.verticalFalseFinders) :
                 LightRunStartsAt(LineOfRun(FALSE, info.verticalFalseFinders[i]), size,
                                  FoundAt(FALSE, info.verticalFalseFinders[i]))

(***************************************************************************)
(* C16, amended: rule 3 is checked only where a light run ends (at the     *)
(* dark cell after it, or at the end of the line), and adds 40 each time   *)
(* the history [h0..h6] there, h0 the light run just ended, has h1 > 0,    *)
(* h1 = h2 = h4 = h5, h3 = 3*h1 and max(h0, h6) >= 4*h1; a pattern ending  *)
(* with a dark run at the end of the line is found through the light run   *)
(* of length 0 appended there.                                             *)
(***************************************************************************)
C16_CheckedLeavingLightRun ==
    query.op = "computePenalties" =>
        LET info == query.info
        IN /\ info.horizontalFalseFinders = AllPatterns(TRUE)
           /\ info.verticalFalseFinders = AllPatterns(FALSE)
           /\ info.penaltyPoints[3]
                 = PENALTY_N3 * (Len(AllPatterns(TRUE)) + Len(AllPatterns(FALSE)))

\* a grid with a pattern found at a dark cell inside a row, and one found at the end
\* of a row whose last cell is dark
C16_Witness ==
    /\ query.op = "computePenalties"
    /\ data # <<>>
    /\ \E i \in 1 .. Len(query.info.horizontalFalseFinders) :
          LET run == query.info.horizontalFalseFinders[i]
          IN /\ FoundAt(TRUE, run) < SizeOf(version)
             /\ Dark(FoundAt(TRUE, run), run.startY)
    /\ \E i \in 1 .. Len(query.info.horizontalFalseFinders) :
          LET run == query.info.horizontalFalseFinders[i]
          IN /\ FoundAt(TRUE, run) = SizeOf(version)
             /\ Dark(SizeOf(version) - 1, run.startY)
    /\ query.info.penaltyPoints[3] >= 2 * PENALTY_N3


\* the maximal runs of one color, of length 5 or more, of row k (horizontal) or
\* column k, as LinearRun records
MaximalRuns(horizontal, k) ==
    LET size == SizeOf(version)
        line == GridLine(horizontal, k)
    IN { IF horizontal THEN LinearRun(sl[1], k, sl[2]) ELSE LinearRun(k, sl[1], sl[2]) :
           sl \in { tl \in (0 .. size - 1) \X (5 .. size) :
                      /\ tl[1] + tl[2] <= size
                      /\ \A p \in tl[1] .. tl[1] + tl[2] - 1 : line[p] = line[tl[1]]
                      /\ tl[1] = 0 \/ line[tl[1] - 1] # line[tl[1]]
                      /\ tl[1] + tl[2] = size \/ line[tl[1] + tl[2]] # line[tl[1]] } }

AllMaximalRuns(horizontal) == UNION {MaximalRuns(horizontal, k) : k \in Coords}

RECURSIVE RunPoints(_)
RunPoints(runs) ==
    IF runs = {} THEN 0
    ELSE LET r == CHOOSE q \in runs : TRUE
         IN (3 + (r.runLength - 5)) + RunPoints(runs \ {r})

(***************************************************************************)
(* C17.  Rule 1 of computePenalties: penaltyPoints[0] is the sum, over     *)
(* every row and every column, of 3 + (length - 5) for each maximal run of *)
(* cells of one color of length >= 5, each run counted once, a run at      *)
(* index 0 or at the last index included and an Unfilled cell counted as   *)
(* light; the horizontal and vertical runs recorded are exactly those      *)
(* runs, with their start and length.                                      *)
(***************************************************************************)
C17_RunPenaltyIsSumOverMaximalRuns ==
    query.op = "computePenalties" =>
        LET info == query.info
            horz == {info.horizontalRuns[i] : i \in 1 .. Len(info.horizontalRuns)}
            vert == {info.verticalRuns[i] : i \in 1 .. Len(info.verticalRuns)}
        IN /\ horz = AllMaximalRuns(TRUE)
           /\ vert = AllMaximalRuns(FALSE)
           /\ Cardinality(horz) = Len(info.horizontalRuns)
           /\ Cardinality(vert) = Len(info.verticalRuns)
           /\ info.penaltyPoints[1]
                 = RunPoints(AllMaximalRuns(TRUE)) + RunPoints(AllMaximalRuns(FALSE))

\* the grid with the structural patterns only: row 9 is one light run of Unfilled
\* cells and the timing cell, from index 0 to the last index; row 0 has the dark run
\* of the finder at index 0 and that of the other finder at the last index
C17_Witness ==
    /\ query.op = "computePenalties"
    /\ op = "drawVersionInformation"
    /\ IsUnfilledModule(modules[0][9])
    /\ \E i \in 1 .. Len(query.info.horizontalRuns) :
          query.info.horizontalRuns[i] = LinearRun(0, 9, SizeOf(version))
    /\ \E i \in 1 .. Len(query.info.horizontalRuns) :
          query.info.horizontalRuns[i] = LinearRun(0, 0, 7)
    /\ \E i \in 1 .. Len(query.info.horizontalRuns) :
          query.info.horizontalRuns[i] = LinearRun(SizeOf(version) - 7, 0, 7)
    /\ query.info.penaltyPoints[1] > 0


(***************************************************************************)
(* drawAlignmentPatterns on the grids of every version: the new grid, and  *)
(* the grid with the timing and the finder patterns drawn.                 *)
(***************************************************************************)
AlignInit ==
    /\ version \in MIN_VERSION .. MAX_VERSION
    /\ ecl = LOW
    /\ \/ /\ modules = NewModules(version)
          /\ op = "new"
       \/ /\ modules = StoredGrid(drawFinderPatterns(
                           StoredGrid(drawTimingPatterns(NewModules(version), SizeOf(version))),
                           SizeOf(version)))
          /\ op = "drawFinderPatterns"
    /\ unfilledColor = NewUnfilledColor(version)
    /\ scan = NoScan
    /\ mask = NoMask
    /\ data = <<>>
    /\ err = "none"
    /\ steps = 0
    /\ maskUses = 0
    /\ sel = NoSelection
    /\ PureIdle

AlignDrawAlignmentPatterns ==
    /\ op \in {"new", "drawFinderPatterns"}
    /\ op' = "drawAlignmentPatterns"
    /\ err' = "none"
    /\ steps' = steps + 1
    /\ modules' = drawAlignmentPatterns(modules, version)
    /\ UNCHANGED <<version, ecl, unfilledColor, scan, mask, data, maskUses, sel, pureVars>>

AlignNext == AlignDrawAlignmentPatterns

SpecAlign == AlignInit /\ [][AlignNext]_vars

\* the pairs << i, j >> of indices into the anchors whose block covers (x, y), the
\* three pairs at the finder patterns left out
BlocksOver(pos, x, y) ==
    LET n == Len(pos)
    IN { ij \in (1 .. n) \X (1 .. n) :
           /\ Abs(x - pos[ij[1]]) <= 2
           /\ Abs(y - pos[ij[2]]) <= 2
           /\ ij \notin {<<1, 1>>, <<1, n>>, <<n, 1>>} }

(***************************************************************************)
(* C18.  For every version in 2..40 drawAlignmentPatterns ends, with       *)
(* numAlign = floor(v/7) + 2 anchors, strictly increasing, the first 6 and *)
(* the last size - 7; it draws a 5x5 block, dark but at Chebyshev distance *)
(* 1 from its center, at every ordered pair of anchors but (first, first), *)
(* (first, last), (last, first); every block lies inside the grid and      *)
(* covers no finder or separator cell; for version 1 the grid is left as   *)
(* it is.                                                                  *)
(***************************************************************************)
C18_AlignmentBlocksAtAnchorPairs ==
    [][op' = "drawAlignmentPatterns" =>
          IF version = 1 THEN modules' = modules
          ELSE LET size == SizeOf(version)
                   pos == AlignPatPos(version)
                   n == Len(pos)
               IN /\ n = (version \div 7) + 2
                  /\ pos[1] = 6
                  /\ pos[n] = size - 7
                  /\ \A i \in 1 .. n - 1 : pos[i] < pos[i + 1]
                  /\ \A i \in 1 .. n : pos[i] - 2 >= 0 /\ pos[i] + 2 <= size - 1
                  /\ DOMAIN modules' = DOMAIN modules
                  /\ \A x \in Coords : DOMAIN modules'[x] = DOMAIN modules[x]
                  /\ \A x \in Coords :
                        IF \A i \in 1 .. n : Abs(x - pos[i]) > 2
                        THEN modules'[x] = modules[x]
                        ELSE \A y \in Coords :
                                LET over == BlocksOver(pos, x, y)
                                IN IF over = {} THEN modules'[x][y] = modules[x][y]
                                   ELSE /\ Cardinality(over) = 1
                                        /\ modules[x][y].kind \notin {"Finder", "Separator"}
                                        /\ \A ij \in over :
                                              modules'[x][y] = AlignmentModule(
                                                  Max(Abs(x - pos[ij[1]]), Abs(y - pos[ij[2]])) # 1)]_vars

\* version 32, the version with its own step, on the grid with the finder patterns:
\* 6 anchors, the block at the pair (second, first) on the timing row drawn, the
\* corner of the finder pattern at the pair (first, first) kept
C18_Witness ==
    /\ op = "drawAlignmentPatterns"
    /\ version = 32
    /\ AlignPatPos(32) = <<6, 34, 60, 86, 112, 138>>
    /\ modules[34][6] = AlignmentModule(TRUE)
    /\ modules[33][6] = AlignmentModule(FALSE)
    /\ modules[32][4] = AlignmentModule(TRUE)
    /\ modules[6][6].kind = "Finder"
    /\ modules[138][138] = AlignmentModule(TRUE)


(***************************************************************************)
(* The layout of every version: on the grid with the structural patterns   *)
(* drawn, makeZigZagScan, then drawCodewords with that scan.               *)
(***************************************************************************)
LayoutData(ver) ==
    LET n == getNumRawDataModules(ver).val \div 8
    IN {DataBytes(n, 0, 0), DataBytes(n, 37, 165)}

LayoutInit ==
    /\ version \in MIN_VERSION .. MAX_VERSION
    /\ ecl = LOW
    /\ modules = StructuralGrid(version, ecl)
    /\ op = "drawVersionInformation"
    /\ unfilledColor = NewUnfilledColor(version)
    /\ scan = NoScan
    /\ mask = NoMask
    /\ data = <<>>
    /\ err = "none"
    /\ steps = 0
    /\ maskUses = 0
    /\ sel = NoSelection
    /\ PureIdle

LayoutMakeZigZagScan ==
    /\ op = "drawVersionInformation"
    /\ op' = "makeZigZagScan"
    /\ err' = "none"
    /\ steps' = steps + 1
    /\ scan' = [made |-> TRUE, cells |-> makeZigZagScan(modules, SizeOf(version))]
    /\ UNCHANGED <<version, ecl, modules, unfilledColor, mask, data, maskUses, sel, pureVars>>

LayoutDrawCodewords ==
    /\ op = "makeZigZagScan"
    /\ \E dat \in LayoutData(version) :
          \E r \in {drawCodewords(modules, version, dat, scan.cells)} :
              /\ err' = r.err
              /\ modules' = r.g
              /\ data' = dat
    /\ op' = "drawCodewords"
    /\ steps' = steps + 1
    /\ UNCHANGED <<version, ecl, unfilledColor, scan, mask, maskUses, sel, pureVars>>

LayoutNext == LayoutMakeZigZagScan \/ LayoutDrawCodewords

SpecLayout == LayoutInit /\ [][LayoutNext]_vars

CellsOfKind(kind) ==
    {xy \in Coords \X Coords : modules[xy[1]][xy[2]].kind = kind}

(***************************************************************************)
(* C19.  For every version in 1..40, on the new grid with                  *)
(* drawTimingPatterns, drawFinderPatterns, drawAlignmentPatterns,          *)
(* drawFormatBits(-1) and drawVersionInformation called in this order,     *)
(* makeZigZagScan returns getNumRawDataModules(version) cells; so          *)
(* drawCodewords fills every Unfilled cell and writes exactly              *)
(* getNumRawDataModules(version) mod 8, at most 7, Remainder cells.        *)
(***************************************************************************)
C19_LayoutAgreesWithCapacity ==
    LET raw == getNumRawDataModules(version)
    IN /\ raw.err = "none"
       /\ op = "makeZigZagScan" =>
             /\ Len(scan.cells) = raw.val
             /\ Cardinality(CellsOfKind("Unfilled")) = raw.val
       /\ op = "drawCodewords" =>
             /\ err = "none"
             /\ NoUnfilled(modules)
             /\ Cardinality(CellsOfKind("Codeword")) = 8 * Len(data)
             /\ Cardinality(CellsOfKind("Remainder")) = raw.val % 8
             /\ Cardinality(CellsOfKind("Remainder")) <= 7

\* version 14, with alignment patterns on the timing lines and version information:
\* 4651 cells, 581 codewords and 3 Remainder cells
C19_Witness ==
    /\ op = "drawCodewords"
    /\ version = 14
    /\ Len(scan.cells) = 4651
    /\ Len(data) = 581
    /\ Cardinality(CellsOfKind("Remainder")) = 3
    /\ NoUnfilled(modules)

====
